---- MODULE Spec2Model ----
(***************************************************************************)
(* Stage-5 deterministic math pipeline (src/stage5): Gate -> Extractor ->  *)
(* Solver -> Verifier -> Explainer, composed by Stage5Pipeline.solve.      *)
(*                                                                         *)
(* Representation.                                                         *)
(*  - A Python string is a sequence of tokens (whitespace-separated words  *)
(*    and digit runs); "" and an all-whitespace string are the empty       *)
(*    sequence.  `k in s` (substring) and the regular expressions of the   *)
(*    extractor are evaluated token by token.                              *)
(*  - A Python value is a record tagged with its type in field t.          *)
(*  - A float is carried in fixed point, in units of 1/FloatScale.         *)
(*  - Each invocation of solve is a process i with its own locals; a step  *)
(*    is one stage of the pipeline.                                        *)
(***************************************************************************)
EXTENDS Integers, Sequences, FiniteSets, TLC

\* ---------------------------------------------------------------- bounds
\* Largest numeral written in a generated problem text.
MaxNum == 3
\* Largest dice sum a text asks for, and largest value a numeral is varied to.
MaxTarget == 13
\* Largest integer carried by a field n1, k1, n2, k2 of a structured input.
MaxField == 1
\* Largest number whose divisors a text asks for.
MaxDivisor == 64

\* The invocations of solve on one pipeline instance.
Invocations == {1, 2}

Min(S) == CHOOSE m \in S : \A y \in S : m <= y
Max(S) == CHOOSE m \in S : \A y \in S : m >= y

\* ---------------------------------------------------------------- strings
\* Tokens: a word, a digit run, or the cubic written after "f(x) =".
W(s) == [k |-> "w", w |-> s, n |-> 0]
N(i) == [k |-> "n", w |-> "", n |-> i]
\* asign/adigits: the text in front of x^3 (sign "", "+" or "-"; digits or
\* -1 for none); b, c, d: the signed numerals in front of x^2, x and the
\* constant term.
Poly(asign, adigits, b, c, d) ==
    [k |-> "p", w |-> "", n |-> 0, asign |-> asign, adigits |-> adigits,
     b |-> b, c |-> c, d |-> d]

\* str.lower() on one word.
LowerWord(w) ==
    CASE w = "Committee" -> "committee"
      [] w = "Three" -> "three"
      [] w = "Two" -> "two"
      [] w = "Find" -> "find"
      [] w = "If" -> "if"
      [] w = "A" -> "a"
      [] w = "Circle" -> "circle"
      [] w = "Tangent" -> "tangent"
      [] OTHER -> w

\* s = raw.lower()
Lower(raw) ==
    [j \in DOMAIN raw |->
        IF raw[j].k = "w" THEN W(LowerWord(raw[j].w)) ELSE raw[j]]

\* The keywords a (lowercase) word contains as a substring, besides itself.
InnerKeywords(w) ==
    CASE w = "women" -> {"men"}
      [] w = "divisors" -> {"divisor"}
      [] w = "factors" -> {"factor"}
      [] w = "extrema" -> {"extrem"}
      [] w = "extremum" -> {"extrem"}
      [] OTHER -> {}

\* `kw in s` for a keyword kw without whitespace.
In(kw, s) ==
    \E j \in DOMAIN s :
        /\ s[j].k = "w"
        /\ (s[j].w = kw \/ kw \in InnerKeywords(s[j].w))

\* val.strip() is truthy
NonBlank(s) == Len(s) > 0

\* The regular expression atoms, on tokens.
IsNum(s, j) == j \in DOMAIN s /\ s[j].k = "n"
\* a literal word that must be followed by whitespace
IsWord(s, j, w) == j \in DOMAIN s /\ s[j].k = "w" /\ s[j].w = w
\* a literal that may be followed by more letters (men -> men, mental)
StartsWord(s, j, w) ==
    /\ j \in DOMAIN s
    /\ s[j].k = "w"
    /\ \/ s[j].w = w
       \/ (w = "divisor" /\ s[j].w = "divisors")
       \/ (w = "factor" /\ s[j].w = "factors")
\* re.search: the leftmost position at which P matches, 0 when none does
FirstMatch(s, P(_)) ==
    IF \E j \in DOMAIN s : P(j) THEN Min({j \in DOMAIN s : P(j)}) ELSE 0

\* ---------------------------------------------------------------- gate
STRUCTURED == "STRUCTURED"
PATTERNABLE == "PATTERNABLE"
UNTRUSTED == "UNTRUSTED"
GateRoute == {STRUCTURED, PATTERNABLE, UNTRUSTED}

\* Python's None in an Optional[str] field.
NoneStr == "None"

\* A value stored under a key of problem_data; Absent: the key is missing,
\* so that problem_data.get(key) is None.
Absent == [t |-> "absent"]
PyInt(v) == [t |-> "int", v |-> v]
PyStr(s) == [t |-> "str", s |-> s]
\* a value that is neither an int nor a str (a list, a float)
PyOther == [t |-> "other"]

GateDecision(route, guard_code, guard_state, guard_action, reason) ==
    [route |-> route, guard_code |-> guard_code, guard_state |-> guard_state,
     guard_action |-> guard_action, reason |-> reason]

\* isinstance(problem_data.get(k), int)
IsIntField(v) == v.t = "int"

\* Mutant: k2 is not looked at.
IsAlreadyStructuredThreeFields(problem_data) ==
    IF problem_data.kind = "nCk_times_nCk"
    THEN \A f \in {"n1", "k1", "n2"} : IsIntField(problem_data[f])
    ELSE FALSE

IsAlreadyStructured(problem_data) ==
    IF problem_data.kind = "nCk_times_nCk"
    THEN \A f \in {"n1", "k1", "n2", "k2"} : IsIntField(problem_data[f])
    ELSE FALSE

\* isinstance(val, str) and val.strip()
IsText(val) == val.t = "str" /\ NonBlank(val.s)

RawKeys == <<"raw", "problem", "text">>

\* Mutant: the last key holding text wins.
LastRawKey(problem_data) ==
    IF \E j \in 1..Len(RawKeys) : IsText(problem_data[RawKeys[j]])
    THEN Max({j \in 1..Len(RawKeys) : IsText(problem_data[RawKeys[j]])})
    ELSE 0

\* The first key of RawKeys holding non-blank text, 0 when there is none.
FirstRawKey(problem_data) ==
    IF \E j \in 1..Len(RawKeys) : IsText(problem_data[RawKeys[j]])
    THEN Min({j \in 1..Len(RawKeys) : IsText(problem_data[RawKeys[j]])})
    ELSE 0

\* Stage5Gate._get_raw: the text, or NoRaw for None.
NoRaw == [t |-> "None"]
GetRaw(problem_data) ==
    IF FirstRawKey(problem_data) = 0
    THEN NoRaw
    ELSE problem_data[RawKeys[FirstRawKey(problem_data)]]

KwCombinatorics(s) ==
    /\ (In("committee", s) \/ In("choose", s) \/ In("ways", s))
    /\ (In("men", s) /\ In("women", s))
KwAlgebra(s) ==
    /\ (In("x^2", s) \/ In("x²", s) \/ In("x**2", s))
    /\ (In("xy", s) \/ In("x*y", s))
\* Mutant: the gate's number theory test asks for "factor" alone.
KwNumberTheoryFactorOnly(s) == In("factor", s) /\ In("sum", s)

KwNumberTheory(s) == (In("divisor", s) \/ In("factor", s)) /\ In("sum", s)
KwGeometry(s) == In("circle", s) /\ In("radius", s) /\ In("tangent", s)
KwProbability(s) ==
    (In("dice", s) \/ In("die", s)) /\ (In("sum", s) \/ In("probability", s))
KwCalculus(s) ==
    In("f(x)", s) /\ (In("extrem", s) \/ In("maximum", s) \/ In("minimum", s))

IsPatternable(raw) ==
    LET s == Lower(raw)
    IN  \/ KwCombinatorics(s)
        \/ KwAlgebra(s)
        \/ KwNumberTheory(s)
        \/ KwGeometry(s)
        \/ KwProbability(s)
        \/ KwCalculus(s)

\* Mutant: a PATTERNABLE decision carries a reason.
DecideWithReason(problem_data) ==
    IF IsAlreadyStructured(problem_data)
    THEN GateDecision(STRUCTURED, NoneStr, NoneStr, NoneStr, NoneStr)
    ELSE IF GetRaw(problem_data).t = "str" /\ IsPatternable(GetRaw(problem_data).s)
    THEN GateDecision(PATTERNABLE, NoneStr, NoneStr, NoneStr, "Matches a known pattern.")
    ELSE GateDecision(UNTRUSTED, "OBS_UNTRUSTED", "OBS_UNTRUSTED", "STOP",
                      "Input is neither structured nor patternable with deterministic rules.")

Decide(problem_data) ==
    IF IsAlreadyStructured(problem_data)
    THEN GateDecision(STRUCTURED, NoneStr, NoneStr, NoneStr, NoneStr)
    ELSE IF GetRaw(problem_data).t = "str" /\ IsPatternable(GetRaw(problem_data).s)
    THEN GateDecision(PATTERNABLE, NoneStr, NoneStr, NoneStr, NoneStr)
    ELSE GateDecision(UNTRUSTED, "OBS_UNTRUSTED", "OBS_UNTRUSTED", "STOP",
                      "Input is neither structured nor patternable with deterministic rules.")

\* ---------------------------------------------------------------- floats
\* Resolution of the fixed-point image of a float.
FloatScale == 10 * 10 * 10

\* float(n) for an int n
ToFloat(n) == n * FloatScale

RECURSIVE SqrtSearch(_, _, _)
\* the largest r in lo..hi with r * r <= v, by bisection
SqrtSearch(v, lo, hi) ==
    IF lo >= hi THEN lo
    ELSE LET mid == (lo + hi + 1) \div 2
         IN  IF mid * mid <= v THEN SqrtSearch(v, mid, hi)
             ELSE SqrtSearch(v, lo, mid - 1)

\* floor of the square root of a natural number
ISqrt(v) == SqrtSearch(v, 0, Min({v, 46340}))

\* x * y and x / y on floats, rounded to the nearest unit (d > 0 in FRound).
\* A product with a whole number is exact and is formed without the
\* intermediate x * y, which keeps it inside the integer range.
FRound(n, d) == (2 * n + d) \div (2 * d)
FMul(x, y) ==
    IF x % FloatScale = 0 THEN (x \div FloatScale) * y
    ELSE IF y % FloatScale = 0 THEN x * (y \div FloatScale)
    ELSE FRound(x * y, FloatScale)
\* math.sqrt
FSqrt(x) == ISqrt(x * FloatScale)
Abs(x) == IF x < 0 THEN -x ELSE x
Sign(x) == IF x < 0 THEN -1 ELSE IF x > 0 THEN 1 ELSE 0

\* ---------------------------------------------------------------- extractor
COMBINATORICS == "combinatorics"
ALGEBRA == "algebra"
NUMBER_THEORY == "number_theory"
GEOMETRY == "geometry"
PROBABILITY == "probability"
CALCULUS == "calculus"
PatternKind ==
    {COMBINATORICS, ALGEBRA, NUMBER_THEORY, GEOMETRY, PROBABILITY, CALCULUS}

\* Optional[Extracted] = None
NoneExtracted == [kind |-> "None"]

RECURSIVE CaseListNoUpper(_, _, _, _, _)
\* Mutant: the number of women of a case is not held to the women available.
CaseListNoUpper(num_men, hi, committee_size, min_women, total_women) ==
    IF num_men > hi THEN <<>>
    ELSE (IF min_women <= committee_size - num_men
          THEN << <<num_men, committee_size - num_men>> >>
          ELSE <<>>)
         \o CaseListNoUpper(num_men + 1, hi, committee_size, min_women, total_women)

RECURSIVE CaseList(_, _, _, _, _)
\* for num_men in range(num_men, hi + 1): keep (num_men, size - num_men)
\* when min_women <= size - num_men <= total_women
CaseList(num_men, hi, committee_size, min_women, total_women) ==
    IF num_men > hi THEN <<>>
    ELSE (IF /\ min_women <= committee_size - num_men
             /\ committee_size - num_men <= total_women
          THEN << <<num_men, committee_size - num_men>> >>
          ELSE <<>>)
         \o CaseList(num_men + 1, hi, committee_size, min_women, total_women)

TryCombinatorics(raw) ==
    LET s == Lower(raw)
        \* (\d+)\s+men.*?(\d+)\s+women
        Women(j) == IsNum(s, j) /\ StartsWord(s, j + 1, "women")
        Men(j) == /\ IsNum(s, j) /\ StartsWord(s, j + 1, "men")
                  /\ \E j2 \in DOMAIN s : j2 > j + 1 /\ Women(j2)
        m == FirstMatch(s, Men)
        m2 == Min({j2 \in DOMAIN s : j2 > m + 1 /\ Women(j2)})
        \* committee\s+of\s+(\d+)|(\d+)\s+people
        SizeA(j) == IsWord(s, j, "committee") /\ IsWord(s, j + 1, "of") /\ IsNum(s, j + 2)
        SizeB(j) == IsNum(s, j) /\ StartsWord(s, j + 1, "people")
        Size(j) == SizeA(j) \/ SizeB(j)
        sz == FirstMatch(s, Size)
        \* at\s+least\s+(\d+)\s+men   and   at\s+least\s+(\d+)\s+wom[ae]n
        MinMen(j) == /\ IsWord(s, j, "at") /\ IsWord(s, j + 1, "least")
                     /\ IsNum(s, j + 2) /\ StartsWord(s, j + 3, "men")
        MinWomen(j) == /\ IsWord(s, j, "at") /\ IsWord(s, j + 1, "least")
                       /\ IsNum(s, j + 2)
                       /\ (StartsWord(s, j + 3, "woman") \/ StartsWord(s, j + 3, "women"))
        mm == FirstMatch(s, MinMen)
        mw == FirstMatch(s, MinWomen)
        total_men == s[m].n
        total_women == s[m2].n
        committee_size == IF SizeA(sz) THEN s[sz + 2].n ELSE s[sz].n
        min_men == s[mm + 2].n
        min_women == s[mw + 2].n
        cases == CaseList(min_men, Min({total_men, committee_size}),
                          committee_size, min_women, total_women)
    IN  IF ~(/\ (In("committee", s) \/ In("choose", s) \/ In("ways", s))
             /\ (In("men", s) /\ In("women", s)))
        THEN NoneExtracted
        ELSE IF m = 0 THEN NoneExtracted
        ELSE IF sz = 0 THEN NoneExtracted
        ELSE IF mm = 0 \/ mw = 0 THEN NoneExtracted
        ELSE IF cases = <<>> THEN NoneExtracted
        ELSE [kind |-> COMBINATORICS, n1 |-> total_men, k1 |-> 0,
              n2 |-> total_women, k2 |-> 0, cases |-> cases]

TryAlgebra(raw) ==
    LET s == Lower(raw)
        X2(j) == IsWord(s, j, "x^2") \/ IsWord(s, j, "x²") \/ IsWord(s, j, "x**2")
        Y2(j) == IsWord(s, j, "y^2") \/ IsWord(s, j, "y²") \/ IsWord(s, j, "y**2")
        \* (?:x\^2|x²|x\*\*2)\s*\+\s*(?:y\^2|y²|y\*\*2)\s*=\s*(\d+)
        SumSq(j) == /\ X2(j) /\ IsWord(s, j + 1, "+") /\ Y2(j + 2)
                    /\ IsWord(s, j + 3, "=") /\ IsNum(s, j + 4)
        \* xy\s*=\s*(\d+)|x\s*\*\s*y\s*=\s*(\d+)
        ProdA(j) == IsWord(s, j, "xy") /\ IsWord(s, j + 1, "=") /\ IsNum(s, j + 2)
        ProdB(j) == /\ IsWord(s, j, "x") /\ IsWord(s, j + 1, "*") /\ IsWord(s, j + 2, "y")
                    /\ IsWord(s, j + 3, "=") /\ IsNum(s, j + 4)
        Prod(j) == ProdA(j) \/ ProdB(j)
        q == FirstMatch(s, SumSq)
        p == FirstMatch(s, Prod)
        \* "(x + y)^2", "(x+y)^2" or "(x + y)²" in s
        Asks == \/ In("(x+y)^2", s)
                \/ \E j \in DOMAIN s :
                       /\ IsWord(s, j, "(x") /\ IsWord(s, j + 1, "+")
                       /\ (IsWord(s, j + 2, "y)^2") \/ IsWord(s, j + 2, "y)²"))
    IN  IF ~(In("x^2", s) \/ In("x²", s) \/ In("x**2", s)) THEN NoneExtracted
        ELSE IF ~In("xy", s) /\ ~In("x*y", s) THEN NoneExtracted
        ELSE IF q = 0 THEN NoneExtracted
        ELSE IF p = 0 THEN NoneExtracted
        ELSE IF ~Asks THEN NoneExtracted
        ELSE [kind |-> ALGEBRA, x2_plus_y2 |-> s[q + 4].n,
              xy |-> IF ProdA(p) THEN s[p + 2].n ELSE s[p + 4].n]

TryNumberTheory(raw) ==
    LET s == Lower(raw)
        \* divisors?\s+of\s+(\d+)|factors?\s+of\s+(\d+)
        Of(j) == /\ (StartsWord(s, j, "divisor") \/ StartsWord(s, j, "factor"))
                 /\ IsWord(s, j + 1, "of") /\ IsNum(s, j + 2)
        m == FirstMatch(s, Of)
    IN  IF ~((In("divisor", s) \/ In("factor", s)) /\ In("sum", s))
        THEN NoneExtracted
        ELSE IF m = 0 THEN NoneExtracted
        ELSE [kind |-> NUMBER_THEORY, number |-> s[m + 2].n]

TryGeometry(raw) ==
    LET s == Lower(raw)
        \* radius\s+(?:is\s+)?(\d+)
        RadA(j) == IsWord(s, j, "radius") /\ IsNum(s, j + 1)
        RadB(j) == IsWord(s, j, "radius") /\ IsWord(s, j + 1, "is") /\ IsNum(s, j + 2)
        Rad(j) == RadA(j) \/ RadB(j)
        \* tangent.*?(?:length\s+)?(?:is\s+)?(\d+)
        Tan(j) == StartsWord(s, j, "tangent") /\ \E j2 \in DOMAIN s : j2 > j /\ IsNum(s, j2)
        r == FirstMatch(s, Rad)
        t == FirstMatch(s, Tan)
        t2 == Min({j2 \in DOMAIN s : j2 > t /\ IsNum(s, j2)})
    IN  IF ~(In("circle", s) /\ In("radius", s) /\ In("tangent", s))
        THEN NoneExtracted
        ELSE IF r = 0 THEN NoneExtracted
        ELSE IF t = 0 THEN NoneExtracted
        ELSE [kind |-> GEOMETRY,
              radius |-> ToFloat(IF RadA(r) THEN s[r + 1].n ELSE s[r + 2].n),
              tangent |-> ToFloat(s[t2].n)]

\* Mutant: the number words are read one too low.
WordToNumShifted(w) ==
    CASE w = "one" -> 0 [] w = "two" -> 1 [] w = "three" -> 2
      [] w = "four" -> 3 [] w = "five" -> 4 [] w = "six" -> 5
      [] OTHER -> 0

\* word_to_num
WordToNum(w) ==
    CASE w = "one" -> 1 [] w = "two" -> 2 [] w = "three" -> 3
      [] w = "four" -> 4 [] w = "five" -> 5 [] w = "six" -> 6
      [] OTHER -> 0

\* (one|two|three|four|five|six|1|2|3|4|5|6) ending token j: the count it
\* names, 0 when it names none (of a digit run the last digit is matched).
DiceCount(s, j) ==
    IF j \notin DOMAIN s THEN 0
    ELSE IF s[j].k = "w" THEN WordToNum(s[j].w)
    ELSE IF s[j].k = "n" /\ s[j].n % 10 \in 1..6 THEN s[j].n % 10
    ELSE 0

TryProbability(raw) ==
    LET s == Lower(raw)
        \* (one|...|6)\s+dic[e]
        Dice(j) == DiceCount(s, j) # 0 /\ StartsWord(s, j + 1, "dice")
        \* sum\s+(?:is\s+)?(?:exactly\s+)?(\d+)
        SumAt(j, n) ==
            /\ IsWord(s, j, "sum")
            /\ IsNum(s, n)
            /\ \/ n = j + 1
               \/ n = j + 2 /\ (IsWord(s, j + 1, "is") \/ IsWord(s, j + 1, "exactly"))
               \/ n = j + 3 /\ IsWord(s, j + 1, "is") /\ IsWord(s, j + 2, "exactly")
        Sum(j) == \E n \in DOMAIN s : SumAt(j, n)
        dm == FirstMatch(s, Dice)
        sm == FirstMatch(s, Sum)
    IN  IF ~(In("dice", s) \/ In("die", s)) THEN NoneExtracted
        ELSE IF dm = 0 THEN NoneExtracted
        ELSE IF sm = 0 THEN NoneExtracted
        ELSE [kind |-> PROBABILITY, num_dice |-> DiceCount(s, dm),
              target_sum |-> s[CHOOSE n \in DOMAIN s : SumAt(sm, n)].n]

TryCalculus(raw) ==
    LET s == Lower(raw)
        \* f\(x\)\s*=\s*([+-]?\d*)\s*x\^3\s*([+-]\s*\d+)\s*x\^2\s*([+-]\s*\d+)\s*x\s*([+-]\s*\d+)
        Cubic(j) == /\ IsWord(s, j, "f(x)") /\ IsWord(s, j + 1, "=")
                    /\ j + 2 \in DOMAIN s /\ s[j + 2].k = "p"
        m == FirstMatch(s, Cubic)
        poly == s[m + 2]
        \* a_str = group(1) or "1";  int(a_str) unless a_str is a bare sign
        a == IF poly.adigits = -1
             THEN (IF poly.asign = "-" THEN -1 ELSE 1)
             ELSE (IF poly.asign = "-" THEN -poly.adigits ELSE poly.adigits)
    IN  IF ~In("f(x)", s) THEN NoneExtracted
        ELSE IF ~(In("extrem", s) \/ In("maximum", s) \/ In("minimum", s))
        THEN NoneExtracted
        ELSE IF m = 0 THEN NoneExtracted
        ELSE [kind |-> CALCULUS,
              coefficients |-> <<ToFloat(a), ToFloat(poly.b),
                                 ToFloat(poly.c), ToFloat(poly.d)>>]

\* The rules in the order extract tries them.
TryRule(r, raw) ==
    CASE r = 1 -> TryCombinatorics(raw)
      [] r = 2 -> TryAlgebra(raw)
      [] r = 3 -> TryNumberTheory(raw)
      [] r = 4 -> TryGeometry(raw)
      [] r = 5 -> TryProbability(raw)
      [] r = 6 -> TryCalculus(raw)

NumRules == Cardinality(PatternKind)

\* Mutant: the last rule that matches wins.
ExtractLastMatch(raw) ==
    IF \E r \in 1..NumRules : TryRule(r, raw).kind # "None"
    THEN TryRule(Max({r \in 1..NumRules : TryRule(r, raw).kind # "None"}), raw)
    ELSE NoneExtracted

\* Stage5Extractor.extract: the result of the first rule that matches.
Extract(raw) ==
    IF \E r \in 1..NumRules : TryRule(r, raw).kind # "None"
    THEN TryRule(Min({r \in 1..NumRules : TryRule(r, raw).kind # "None"}), raw)
    ELSE NoneExtracted

\* ---------------------------------------------------------------- answers
\* The value the solver returns: an int, a float or a list of extrema
\* <<type, x, f(x)>>; NoneAnswer is None.
NoneAnswer == [t |-> "None"]
IntAnswer(v) == [t |-> "int", v |-> v]
FloatAnswer(v) == [t |-> "float", v |-> v]
ListAnswer(l) == [t |-> "list", v |-> l]
\* a str: the sequence of its pieces
StrAnswer(s) == [t |-> "str", v |-> s]

\* ---------------------------------------------------------------- solver
\* What a call produced: a value, or the exception it raised.
Returned(v) == [exc |-> "None", val |-> v]
Raised(e) == [exc |-> e, val |-> NoneAnswer]

RECURSIVE Binomial(_, _)
Binomial(n, k) ==
    IF k > n THEN 0
    ELSE IF k = 0 THEN 1
    ELSE (Binomial(n - 1, k - 1) * n) \div k

\* math.comb raises ValueError on a negative argument
CombRaises(n, k) == n < 0 \/ k < 0
\* math.comb(n, k) for n, k >= 0
Comb(n, k) == Binomial(n, k)

RECURSIVE SumCases(_, _, _)
\* sum(comb(n1, k1) * comb(n2, k2) for k1, k2 in cases)
SumCases(n1, n2, cases) ==
    IF cases = <<>> THEN 0
    ELSE Comb(n1, Head(cases)[1]) * Comb(n2, Head(cases)[2])
         + SumCases(n1, n2, Tail(cases))

SolveCombinatorics(ex) ==
    IF \E j \in DOMAIN ex.cases :
           CombRaises(ex.n1, ex.cases[j][1]) \/ CombRaises(ex.n2, ex.cases[j][2])
    THEN Raised("ValueError")
    ELSE Returned(IntAnswer(SumCases(ex.n1, ex.n2, ex.cases)))

SolveAlgebra(ex) == Returned(IntAnswer(ex.x2_plus_y2 + 2 * ex.xy))

\* factors[d] = factors.get(d, 0) + 1, on the dict as a set of <<prime, exponent>>
Increment(factors, d) ==
    IF \E f \in factors : f[1] = d
    THEN {IF f[1] = d THEN <<d, f[2] + 1>> ELSE f : f \in factors}
    ELSE factors \cup {<<d, 1>>}

RECURSIVE Factorize(_, _, _, _)
\* The loops of _prime_factorization: inner is TRUE inside `while n % d == 0`,
\* FALSE at the test of `while d * d <= n`.
Factorize(n, d, factors, inner) ==
    IF inner
    THEN IF n % d = 0
         THEN Factorize(n \div d, d, Increment(factors, d), TRUE)
         ELSE Factorize(n, d + 1, factors, FALSE)
    ELSE IF d * d <= n THEN Factorize(n, d, factors, TRUE)
    ELSE IF n > 1 THEN {f \in factors : f[1] # n} \cup {<<n, 1>>}
    ELSE factors

PrimeFactorization(n) == Factorize(n, 2, {}, FALSE)

RECURSIVE SigmaProduct(_)
\* sigma *= (prime ** (exp + 1) - 1) // (prime - 1) over the dict
SigmaProduct(factors) ==
    IF factors = {} THEN 1
    ELSE LET f == CHOOSE f \in factors : TRUE
         IN  ((f[1] ^ (f[2] + 1) - 1) \div (f[1] - 1)) * SigmaProduct(factors \ {f})

SolveNumberTheory(ex) ==
    Returned(IntAnswer(SigmaProduct(PrimeFactorization(ex.number))))

SolveGeometry(ex) ==
    Returned(FloatAnswer(FSqrt(FMul(ex.radius, ex.radius) + FMul(ex.tangent, ex.tangent))))

RECURSIVE SumOutcome(_, _)
SumOutcome(outcome, n) == IF n = 0 THEN 0 ELSE outcome[n] + SumOutcome(outcome, n - 1)

\* itertools.product(range(1, 7), repeat=num_dice), counted by sum
CountDiceSum(num_dice, target_sum) ==
    Cardinality({outcome \in [1..num_dice -> 1..6] :
                    SumOutcome(outcome, num_dice) = target_sum})

SolveProbability(ex) ==
    LET total_outcomes == 6 ^ ex.num_dice
        favorable == CountDiceSum(ex.num_dice, ex.target_sum)
    IN  Returned(FloatAnswer(FRound(favorable * FloatScale, total_outcomes)))

RECURSIVE FloorLog2(_, _)
\* floor(log2(num / den)) for num, den > 0: the binary exponent of a double
FloorLog2(num, den) ==
    IF num >= 2 * den THEN 1 + FloorLog2(num, 2 * den)
    ELSE IF num < den THEN FloorLog2(2 * num, den) - 1
    ELSE 0

RECURSIVE DoubleMod(_, _, _)
\* (r * 2^k) % m
DoubleMod(r, m, k) == IF k = 0 THEN r % m ELSE DoubleMod((2 * r) % m, m, k - 1)

\* The sign of the double 6 * a * x + 2 * b on the double root
\* x = -B / (2 * A) = -b / (3a), for whole a # 0 and b.  The quotient is
\* rounded to 53 significant bits: with m = 3|a| it is off by err / m units
\* of its last place, so 6 * a * x is off from -2b by 2 * err such units, and
\* the product rounds back to -2b (the sum is 0) unless that exceeds half the
\* spacing of the doubles next to 2|b|.
DoubleRootResidue(a, b) ==
    IF b = 0 THEN 0
    ELSE LET m == 3 * Abs(a)
             n == Abs(b)
             eq == FloorLog2(n, m)
             rem == DoubleMod(n, m, 52 - eq)
             up == 2 * rem > m
             err == IF up THEN m - rem ELSE rem
             eb == FloorLog2(2 * n, 1)
             spacing == IF up \/ 2 * n # 2 ^ eb THEN 2 ^ (eb - eq - 2)
                        ELSE 2 ^ (eb - eq - 3)
         IN  IF rem = 0 \/ err <= spacing THEN 0
             ELSE IF up THEN -Sign(b) ELSE Sign(b)

\* One critical point x = (-B + sigma * sqrt(discriminant)) / (2 * A), with
\* its classification.  On that x, f''(x) = 6ax + 2b = sigma * sqrt(discriminant)
\* (A = 3a, B = 2b), which is the value whose sign is tested; on a double
\* root that value is what the rounding of x leaves of it.  An entry is
\* <<type, x, f(x), s>>, s telling that x is the float -0.0 (the zero
\* numerator +0.0 over a negative 2 * A).
Extremum(a, b, c, d, sigma, root) ==
    LET A == 3 * a
        B == 2 * b
        numerator == -B + sigma * root
        x == Sign(A) * FRound(numerator * FloatScale, Abs(2 * A))
        f_double_prime ==
            IF root = 0 THEN DoubleRootResidue(a \div FloatScale, b \div FloatScale)
            ELSE sigma * root
        f_val == FMul(a, FMul(FMul(x, x), x)) + FMul(b, FMul(x, x)) + FMul(c, x) + d
        negative_zero == numerator = 0 /\ A < 0
    IN  IF f_double_prime < 0 THEN << <<"max", x, f_val, negative_zero>> >>
        ELSE IF f_double_prime > 0 THEN << <<"min", x, f_val, negative_zero>> >>
        ELSE <<>>

\* sorted(extrema, key=lambda t: t[1]) for at most two entries (stable)
SortByX(extrema) ==
    IF Len(extrema) = 2 /\ extrema[2][2] < extrema[1][2]
    THEN <<extrema[2], extrema[1]>>
    ELSE extrema

\* Mutant: a vanishing leading coefficient yields no extrema instead of a
\* division by zero.
SolveCalculusGuarded(ex) ==
    LET a == ex.coefficients[1]
        b == ex.coefficients[2]
        c == ex.coefficients[3]
        d == ex.coefficients[4]
        discriminant == FMul(2 * b, 2 * b) - FMul(12 * a, c)
        root == FSqrt(discriminant)
    IN  IF discriminant < 0 \/ a = 0 THEN Returned(ListAnswer(<<>>))
        ELSE Returned(ListAnswer(SortByX(Extremum(a, b, c, d, 1, root)
                                         \o Extremum(a, b, c, d, -1, root))))

SolveCalculus(ex) ==
    LET a == ex.coefficients[1]
        b == ex.coefficients[2]
        c == ex.coefficients[3]
        d == ex.coefficients[4]
        A == 3 * a
        B == 2 * b
        C == c
        discriminant == FMul(B, B) - FMul(4 * A, C)
        root == FSqrt(discriminant)
    IN  IF discriminant < 0 THEN Returned(ListAnswer(<<>>))
        ELSE IF 2 * A = 0 THEN Raised("ZeroDivisionError")
        ELSE Returned(ListAnswer(SortByX(Extremum(a, b, c, d, 1, root)
                                         \o Extremum(a, b, c, d, -1, root))))

\* Stage5Solver.solve
SolverSolve(ex) ==
    CASE ex.kind = COMBINATORICS -> SolveCombinatorics(ex)
      [] ex.kind = ALGEBRA -> SolveAlgebra(ex)
      [] ex.kind = NUMBER_THEORY -> SolveNumberTheory(ex)
      [] ex.kind = GEOMETRY -> SolveGeometry(ex)
      [] ex.kind = PROBABILITY -> SolveProbability(ex)
      [] ex.kind = CALCULUS -> SolveCalculus(ex)
      [] OTHER -> Raised("ValueError")

\* ---------------------------------------------------------------- verifier
VerifyResult(ok, guard_code, guard_state, guard_action, reason) ==
    [ok |-> ok, guard_code |-> guard_code, guard_state |-> guard_state,
     guard_action |-> guard_action, reason |-> reason]

\* f"Verifier check {idx} failed."
CheckFailedReason(idx) ==
    CASE idx = 0 -> "Verifier check 0 failed."
      [] idx = 1 -> "Verifier check 1 failed."
      [] idx = 2 -> "Verifier check 2 failed."

\* The outcome of evaluating one check: the lambda is true, false or raises.
Check(b) == IF b THEN "pass" ELSE "fail"

\* Mutant: every check is evaluated before the outcome is formed, so that a
\* raising check decides wherever it stands.
RunChecksEager(checks) ==
    IF \E j \in DOMAIN checks : checks[j] = "raise"
    THEN VerifyResult(FALSE, "VERIFY_ERROR", "VERIFY_ERROR", "STOP", "Verifier exception")
    ELSE IF \E j \in DOMAIN checks : checks[j] = "fail"
    THEN VerifyResult(FALSE, "VERIFY_FAIL", "VERIFY_FAIL", "STOP",
                      CheckFailedReason(Min({j \in DOMAIN checks : checks[j] = "fail"}) - 1))
    ELSE VerifyResult(TRUE, NoneStr, NoneStr, NoneStr, NoneStr)

\* _run_checks over the outcomes of the checks, in order (enumerate counts
\* from 0): the first that does not pass decides.
RunChecks(checks) ==
    IF \A j \in DOMAIN checks : checks[j] = "pass"
    THEN VerifyResult(TRUE, NoneStr, NoneStr, NoneStr, NoneStr)
    ELSE LET first == Min({j \in DOMAIN checks : checks[j] # "pass"})
         IN  IF checks[first] = "fail"
             THEN VerifyResult(FALSE, "VERIFY_FAIL", "VERIFY_FAIL", "STOP",
                               CheckFailedReason(first - 1))
             ELSE VerifyResult(FALSE, "VERIFY_ERROR", "VERIFY_ERROR", "STOP",
                               "Verifier exception")

RECURSIVE DivisibleByAll(_, _, _)
\* all(answer % comb(n1, k1) == 0 for k1, _ in cases): a zero modulus raises
DivisibleByAll(answer, n1, cases) ==
    IF cases = <<>> THEN "pass"
    ELSE IF Comb(n1, Head(cases)[1]) = 0 THEN "raise"
    ELSE IF answer % Comb(n1, Head(cases)[1]) # 0 THEN "fail"
    ELSE DivisibleByAll(answer, n1, Tail(cases))

\* The list checks of each _verify_* method, as the outcomes of its lambdas.
CombinatoricsChecks(ex, answer) ==
    LET expected == SumCases(ex.n1, ex.n2, ex.cases)
    IN  <<Check(answer.v = expected),
          Check(answer.v > 0),
          DivisibleByAll(answer.v, ex.n1, ex.cases)>>

VerifyCombinatorics(ex, answer) == RunChecks(CombinatoricsChecks(ex, answer))

\* Mutant: the recomputation forgets the factor 2.
VerifyAlgebraNoDouble(ex, answer) ==
    LET expected == ex.x2_plus_y2 + ex.xy
    IN  RunChecks(<<Check(answer.v = expected), Check(answer.v > 0)>>)

AlgebraChecks(ex, answer) ==
    LET expected == ex.x2_plus_y2 + 2 * ex.xy
    IN  <<Check(answer.v = expected), Check(answer.v > 0)>>

VerifyAlgebra(ex, answer) == RunChecks(AlgebraChecks(ex, answer))

RECURSIVE DivisorsNoTest(_, _, _)
\* Mutant: n // i is appended without the test i != n // i.
DivisorsNoTest(n, i, last) ==
    IF i > last THEN <<>>
    ELSE (IF n % i = 0 THEN <<i, n \div i>> ELSE <<>>)
         \o DivisorsNoTest(n, i + 1, last)

RECURSIVE DivisorsFrom(_, _, _)
\* for i in range(i, last + 1): if n % i == 0, append i, and n // i when it
\* is another number
DivisorsFrom(n, i, last) ==
    IF i > last THEN <<>>
    ELSE (IF n % i = 0
          THEN <<i>> \o (IF i # n \div i THEN <<n \div i>> ELSE <<>>)
          ELSE <<>>)
         \o DivisorsFrom(n, i + 1, last)

RECURSIVE Sorted(_)
\* sorted(divisors)
Sorted(l) ==
    IF l = <<>> THEN <<>>
    ELSE LET j == CHOOSE j \in DOMAIN l : \A k \in DOMAIN l : l[j] <= l[k]
         IN  <<l[j]>> \o Sorted([k \in 1..(Len(l) - 1) |-> IF k < j THEN l[k] ELSE l[k + 1]])

\* _get_divisors: range(1, int(n**0.5) + 1)
GetDivisors(n) == Sorted(DivisorsFrom(n, 1, ISqrt(n)))

RECURSIVE SumSeq(_)
\* sum(divisors)
SumSeq(l) == IF l = <<>> THEN 0 ELSE Head(l) + SumSeq(Tail(l))

\* Mutant: only the equality with the recomputed sum is checked.
VerifyNumberTheoryEqualityOnly(ex, answer) ==
    RunChecks(<<Check(answer.v = SumSeq(GetDivisors(ex.number)))>>)

NumberTheoryChecks(ex, answer) ==
    LET divisors == GetDivisors(ex.number)
        expected == SumSeq(divisors)
    IN  <<Check(answer.v = expected),
          Check(answer.v >= ex.number + 1),
          Check(answer.v > ex.number)>>

VerifyNumberTheory(ex, answer) == RunChecks(NumberTheoryChecks(ex, answer))

\* math.isclose(x, y, rel_tol=1e-9)
IsClose(x, y) ==
    \/ x = y
    \/ Abs(x - y) <= Max({Abs(x), Abs(y)}) \div 1000000000

GeometryChecks(ex, answer) ==
    LET expected == FSqrt(FMul(ex.radius, ex.radius) + FMul(ex.tangent, ex.tangent))
    IN  <<Check(IsClose(answer.v, expected)),
          Check(answer.v > ex.radius),
          Check(answer.v > ex.tangent)>>

VerifyGeometry(ex, answer) == RunChecks(GeometryChecks(ex, answer))

ProbabilityChecks(ex, answer) ==
    <<Check(0 <= answer.v /\ answer.v <= ToFloat(1)),
      Check(answer.v > 0)>>

VerifyProbability(ex, answer) == RunChecks(ProbabilityChecks(ex, answer))

\* Mutant: an empty list of extrema is refused.
VerifyCalculusNonEmpty(ex, answer) ==
    IF answer.t # "list"
    THEN VerifyResult(FALSE, "VERIFY_FAIL", "VERIFY_FAIL", "STOP",
                      "Calculus answer must be a list of extrema")
    ELSE RunChecks(<<Check(Len(answer.v) <= 2 /\ Len(answer.v) > 0),
                     Check(\A j \in DOMAIN answer.v : answer.v[j][1] \in {"max", "min"})>>)

CalculusChecks(ex, answer) ==
    <<Check(Len(answer.v) <= 2),
      Check(\A j \in DOMAIN answer.v : answer.v[j][1] \in {"max", "min"})>>

VerifyCalculus(ex, answer) ==
    IF answer.t # "list"
    THEN VerifyResult(FALSE, "VERIFY_FAIL", "VERIFY_FAIL", "STOP",
                      "Calculus answer must be a list of extrema")
    ELSE RunChecks(CalculusChecks(ex, answer))

\* Stage5Verifier.verify
VerifierVerify(ex, answer) ==
    CASE ex.kind = COMBINATORICS -> VerifyCombinatorics(ex, answer)
      [] ex.kind = ALGEBRA -> VerifyAlgebra(ex, answer)
      [] ex.kind = NUMBER_THEORY -> VerifyNumberTheory(ex, answer)
      [] ex.kind = GEOMETRY -> VerifyGeometry(ex, answer)
      [] ex.kind = PROBABILITY -> VerifyProbability(ex, answer)
      [] ex.kind = CALCULUS -> VerifyCalculus(ex, answer)
      [] OTHER -> VerifyResult(FALSE, "UNSUPPORTED_KIND", "UNSUPPORTED_KIND", "STOP",
                               "Unsupported pattern kind")

\* ---------------------------------------------------------------- str()
DigitChars == <<"0", "1", "2", "3", "4", "5", "6", "7", "8", "9">>

RECURSIVE Digits(_)
\* the decimal digits of a natural number
Digits(n) ==
    IF n < 10 THEN <<DigitChars[n + 1]>>
    ELSE Digits(n \div 10) \o <<DigitChars[(n % 10) + 1]>>

\* str(n) for an int
StrInt(n) == IF n < 0 THEN <<"-">> \o Digits(-n) ELSE Digits(n)

RECURSIVE StripZeros(_)
\* rstrip('0')
StripZeros(s) ==
    IF s # <<>> /\ s[Len(s)] = "0" THEN StripZeros(SubSeq(s, 1, Len(s) - 1)) ELSE s

\* the digits after the point of |x|, one per power of ten of FloatScale
Fraction(x) ==
    LET f == Abs(x) % FloatScale
    IN  <<DigitChars[(f \div 100) + 1], DigitChars[((f \div 10) % 10) + 1],
          DigitChars[(f % 10) + 1]>>

\* f"{x:.2f}"
Fixed2(x) ==
    LET r == FRound(Abs(x), 10)
    IN  (IF x < 0 THEN <<"-">> ELSE <<>>)
        \o Digits(r \div 100) \o <<".">>
        \o <<DigitChars[((r \div 10) % 10) + 1], DigitChars[(r % 10) + 1]>>

\* f"{x:.6f}".rstrip('0').rstrip('.') for a float that is no integer
Fixed6Stripped(x) ==
    (IF x < 0 THEN <<"-">> ELSE <<>>)
    \o Digits(Abs(x) \div FloatScale) \o <<".">> \o StripZeros(Fraction(x))

RECURSIVE JoinExtrema(_)
\* ", ".join(f"{typ} at x={x:.2f} (f={f_val:.2f})" ...)
JoinExtrema(l) ==
    IF l = <<>> THEN <<>>
    ELSE <<l[1][1], " at x=">> \o (IF l[1][4] THEN <<"-">> ELSE <<>>)
         \o Fixed2(l[1][2]) \o <<" (f=">> \o Fixed2(l[1][3])
         \o <<")">>
         \o (IF Len(l) > 1 THEN <<", ">> ELSE <<>>) \o JoinExtrema(Tail(l))

\* Mutant: the formatted answer is a hardcoded output.
FormatAnswerHardcoded(answer) == StrAnswer(<<"4", "9">>)

\* Stage5Pipeline._format_answer
FormatAnswer(answer) ==
    IF answer.t = "list" THEN StrAnswer(JoinExtrema(answer.v))
    ELSE IF answer.t = "float"
    THEN IF answer.v % FloatScale = 0
         THEN StrAnswer(StrInt(answer.v \div FloatScale))
         ELSE StrAnswer(Fixed6Stripped(answer.v))
    ELSE StrAnswer(StrInt(answer.v))

\* ---------------------------------------------------------------- explainer
\* The text of a halted Response.
EmptyText == <<>>

\* Stage5Explainer.explain: the derivation, as the pieces of its text.
ExplainerExplain(ex, answer) ==
    CASE ex.kind = COMBINATORICS ->
            <<"Combinatorics (Committee Selection):", "Total = ">> \o StrInt(answer.v)
      [] ex.kind = ALGEBRA ->
            <<"Algebra:", "(x + y)² = ">> \o StrInt(ex.x2_plus_y2) \o <<" + 2×">>
            \o StrInt(ex.xy) \o <<" = ">> \o StrInt(answer.v)
      [] ex.kind = NUMBER_THEORY ->
            <<"Number Theory (Divisor Sum):", "Number: ">> \o StrInt(ex.number)
            \o <<"Sum of all divisors = ">> \o StrInt(answer.v)
      [] ex.kind = GEOMETRY ->
            <<"Geometry (Pythagorean Theorem):", "OP = ">> \o Fixed6Stripped(answer.v)
      [] ex.kind = PROBABILITY ->
            <<"Probability (Dice Sum):", "Total outcomes: ">> \o StrInt(6 ^ ex.num_dice)
            \o <<"Probability: ">> \o Fixed6Stripped(answer.v)
      [] ex.kind = CALCULUS ->
            <<"Calculus (Local Extrema):", "Critical points found:">>
            \o JoinExtrema(answer.v)
      [] OTHER -> EmptyText

\* ---------------------------------------------------------------- inputs
\* The problem texts the inputs are drawn from: the six canonical phrasings
\* of src/scripts/test_input_variation.py with their numerals varied, and
\* texts that carry keywords only.
CommitteeText(size, n1, n2, mm, mw) ==
    <<W("A"), W("committee"), W("of"), N(size), W("people"), W("from"),
      N(n1), W("men"), W("and"), N(n2), W("women"), W("must"), W("contain"),
      W("at"), W("least"), N(mm), W("men"), W("and"), W("at"), W("least"),
      N(mw), W(IF mw = 1 THEN "woman" ELSE "women")>>

AlgebraText(q, p) ==
    <<W("If"), W("x^2"), W("+"), W("y^2"), W("="), N(q), W("and"), W("xy"),
      W("="), N(p), W("find"), W("(x"), W("+"), W("y)^2")>>

NumberTheoryText(n) ==
    <<W("Find"), W("the"), W("sum"), W("of"), W("all"), W("positive"),
      W("divisors"), W("of"), N(n)>>

GeometryText(r, t) ==
    <<W("A"), W("circle"), W("has"), W("radius"), N(r), W("Tangent"),
      W("from"), W("p"), W("has"), W("length"), N(t), W("find"),
      W("distance"), W("op")>>

ProbabilityText(dice, target) ==
    <<dice, W("dice"), W("are"), W("rolled"), W("what"), W("is"), W("the"),
      W("probability"), W("that"), W("the"), W("sum"), W("is"), W("exactly"),
      N(target)>>

CalculusText(asign, adigits, b, c, d) ==
    <<W("If"), W("f(x)"), W("="), Poly(asign, adigits, b, c, d), W("find"),
      W("all"), W("local"), W("extrema")>>

CommitteeTexts ==
    {CommitteeText(size, n1, n2, mm, mw) :
        size \in 1..MaxNum, n1 \in 1..MaxNum, n2 \in 1..MaxNum,
        mm \in 0..MaxNum, mw \in 0..MaxNum}
AlgebraTexts == {AlgebraText(q, p) : q \in 0..MaxNum, p \in 0..MaxNum}
NumberTheoryTexts == {NumberTheoryText(n) : n \in 0..MaxDivisor}
GeometryTexts == {GeometryText(r, t) : r \in 0..MaxNum + 1, t \in 0..MaxNum + 1}
ProbabilityTexts ==
    {ProbabilityText(dice, target) :
        dice \in {W("one"), W("Two"), N(2), N(12), N(7), W("some")},
        target \in 0..MaxTarget}
CalculusTexts ==
    {CalculusText(ah[1], ah[2], b, c, d) :
        ah \in {<<"", -1>>, <<"-", -1>>, <<"+", -1>>, <<"", 0>>, <<"", 2>>, <<"-", 2>>},
        b \in -MaxNum..MaxNum, c \in -MaxNum..MaxNum, d \in {0, 1}}
KeywordTexts ==
    {<<W("hello"), W("world")>>,
     <<W("sum"), W("of"), W("factors")>>,
     <<W("dice"), W("probability")>>,
     <<W("circle"), W("radius"), W("tangent")>>,
     <<W("Committee"), W("of"), W("women")>>,
     <<W("x^2"), W("xy")>>,
     <<W("f(x)"), W("maximum")>>,
     <<N(2), W("dice"), W("sum"), N(7)>>}

\* Cubics whose derivative has a double root that is no dyadic fraction
\* (-7/3 and 7/3).
DoubleRootTexts ==
    {CalculusText("", 9, 63, 147, 1), CalculusText("", 9, -63, 147, 1)}

\* Texts that two of the rules match.
MixedTexts ==
    {NumberTheoryText(6) \o ProbabilityText(N(2), 7),
     ProbabilityText(N(2), 7) \o NumberTheoryText(6),
     AlgebraText(1, 1) \o CommitteeText(2, 2, 2, 1, 1),
     CalculusText("", -1, -3, 0, 1) \o GeometryText(3, 4)}

\* The six canonical inputs (input1 of each test) and the second committee
\* input (input2 of the first test).
CanonicalCommittee == CommitteeText(5, 6, 4, 3, 1)
CanonicalAlgebra == AlgebraText(25, 12)
CanonicalNumberTheory == NumberTheoryText(360)
CanonicalGeometry == GeometryText(10, 24)
CanonicalProbability == ProbabilityText(W("Three"), 10)
CanonicalCalculus == CalculusText("", -1, -6, 9, 1)
SecondCommittee == CommitteeText(7, 10, 8, 4, 2)
CanonicalTexts ==
    {CanonicalCommittee, CanonicalAlgebra, CanonicalNumberTheory,
     CanonicalGeometry, CanonicalProbability, CanonicalCalculus, SecondCommittee}

TextLibrary ==
    CommitteeTexts \cup AlgebraTexts \cup NumberTheoryTexts \cup GeometryTexts
    \cup ProbabilityTexts \cup CalculusTexts \cup KeywordTexts \cup MixedTexts
    \cup CanonicalTexts \cup DoubleRootTexts

\* problem_data: a mapping; a key that is missing holds Absent ("None" for
\* the discriminator kind).
ProblemData(kind, n1, k1, n2, k2, raw, problem, text) ==
    [kind |-> kind, n1 |-> n1, k1 |-> k1, n2 |-> n2, k2 |-> k2,
     raw |-> raw, problem |-> problem, text |-> text]

EmptyInput ==
    ProblemData("None", Absent, Absent, Absent, Absent, Absent, Absent, Absent)

KindValues == {"None", "nCk_times_nCk", "nPk"}

\* {"problem": text}
TextInputs ==
    {ProblemData("None", Absent, Absent, Absent, Absent, Absent, PyStr(t), Absent) :
        t \in TextLibrary}

\* What the keys raw, problem and text may hold when several are present.
ProbeValues ==
    {Absent, PyOther, PyStr(<<>>),
     PyStr(AlgebraText(1, 1)), PyStr(NumberTheoryText(0)),
     PyStr(<<W("hello"), W("world")>>), PyStr(<<W("dice"), W("probability")>>)}

PriorityInputs ==
    {ProblemData(kind, Absent, Absent, Absent, Absent, raw, problem, text) :
        kind \in KindValues, raw \in ProbeValues, problem \in ProbeValues,
        text \in ProbeValues}

FieldValues == {Absent, PyStr(<<N(1)>>)} \cup {PyInt(v) : v \in -1..MaxField}

\* The pre-structured shape, complete or not, with or without a text.
StructuredInputs ==
    {ProblemData(kind, n1, k1, n2, k2, Absent, problem, Absent) :
        kind \in KindValues, n1 \in FieldValues, k1 \in FieldValues,
        n2 \in FieldValues, k2 \in FieldValues,
        problem \in {Absent, PyStr(AlgebraText(1, 1))}}

Inputs == TextInputs \cup PriorityInputs \cup StructuredInputs

\* ---------------------------------------------------------------- pipeline
VARIABLES
    pc,             \* pc[i]: the stage invocation i is about to run
    input,          \* problem_data
    decision,       \* the GateDecision
    extracted,      \* the Extracted variant
    answer,         \* the solver's answer
    verify_result,  \* the VerifyResult
    response,       \* the Stage5Response returned
    raised,         \* the exception that left solve, "None" when none did
    calls           \* the stages invoked so far, with their arguments

vars == <<pc, input, decision, extracted, answer, verify_result, response,
          raised, calls>>

Stage5Response(ok, ans, text, guard_code, guard_state, guard_action, route, reason) ==
    [ok |-> ok, answer |-> ans, text |-> text, guard_code |-> guard_code,
     guard_state |-> guard_state, guard_action |-> guard_action,
     route |-> route, reason |-> reason]

\* No Response has been returned (yet).
NoResponse ==
    Stage5Response(FALSE, NoneAnswer, EmptyText, NoneStr, NoneStr, NoneStr,
                   NoneStr, NoneStr)
NoDecision == GateDecision(NoneStr, NoneStr, NoneStr, NoneStr, NoneStr)
NoVerifyResult == VerifyResult(FALSE, NoneStr, NoneStr, NoneStr, NoneStr)

\* One entry of the call log.
Call(stage, ex, ans) == [stage |-> stage, ex |-> ex, ans |-> ans]

\* Mutant: the UNTRUSTED return leaves route unset.
UntrustedNoRoute(d) ==
    Stage5Response(FALSE, NoneAnswer, EmptyText, d.guard_code, d.guard_state,
                   d.guard_action, NoneStr, d.reason)

\* return Stage5Response(ok=False, ..., **decision guard fields)
UntrustedResponse(d) ==
    Stage5Response(FALSE, NoneAnswer, EmptyText, d.guard_code, d.guard_state,
                   d.guard_action, d.route, d.reason)

\* Mutant: a halt that drops the reason.
HaltResponseNoReason(code, route, reason) ==
    Stage5Response(FALSE, NoneAnswer, EmptyText, code, code, "STOP", route, NoneStr)

\* Stage5Response(ok=False, text="", guard_code=code, guard_state=code,
\*                guard_action="STOP", route=..., reason=...)
HaltResponse(code, route, reason) ==
    Stage5Response(FALSE, NoneAnswer, EmptyText, code, code, "STOP", route, reason)

\* Mutant: the halt on a failed verification carries the verifier's reason
\* as its text.
VerifyHaltLeaksText(vr, route) ==
    Stage5Response(FALSE, NoneAnswer, <<vr.reason>>, vr.guard_code, vr.guard_state,
                   vr.guard_action, route, vr.reason)

\* The halt on a failed verification.
VerifyHaltResponse(vr, route) ==
    Stage5Response(FALSE, NoneAnswer, EmptyText, vr.guard_code, vr.guard_state,
                   vr.guard_action, route, vr.reason)

\* Mutant: a STRUCTURED input is sent through the extraction path.
AfterGateStructuredExtract(route) ==
    IF route = UNTRUSTED THEN "done" ELSE "extract"

\* The stage solve runs after the gate's decision.
AfterGate(route) ==
    IF route = UNTRUSTED THEN "done"
    ELSE IF route = STRUCTURED THEN "structured"
    ELSE "extract"

\* _handle_structured: the Response, or the exception math.comb raises.
HandleStructured(problem_data, d) ==
    IF problem_data.kind # "nCk_times_nCk"
    THEN Returned(HaltResponse("UNSUPPORTED_KIND", d.route, "Unsupported structured kind"))
    ELSE LET n1 == problem_data.n1.v
             k1 == problem_data.k1.v
             n2 == problem_data.n2.v
             k2 == problem_data.k2.v
         IN  IF CombRaises(n1, k1) \/ CombRaises(n2, k2)
             THEN [exc |-> "ValueError", val |-> NoResponse]
             ELSE Returned(Stage5Response(TRUE,
                      IntAnswer(Comb(n1, k1) * Comb(n2, k2)),
                      <<"Structured compute: C(">> \o StrInt(n1) \o <<",">> \o StrInt(k1)
                      \o <<") × C(">> \o StrInt(n2) \o <<",">> \o StrInt(k2)
                      \o <<") = ">> \o StrInt(Comb(n1, k1) * Comb(n2, k2)),
                      NoneStr, NoneStr, NoneStr, d.route, NoneStr))

\* Mutant: the pipeline's loop tries the keys in the order text, problem, raw.
PipelineRawReversed(problem_data) ==
    IF IsText(problem_data.text) THEN problem_data.text
    ELSE IF IsText(problem_data.problem) THEN problem_data.problem
    ELSE IF IsText(problem_data.raw) THEN problem_data.raw
    ELSE NoRaw

\* _handle_patternable's own lookup of the raw text (the loop over the keys).
PipelineRaw(problem_data) ==
    IF \E j \in 1..Len(RawKeys) :
           problem_data[RawKeys[j]].t = "str" /\ NonBlank(problem_data[RawKeys[j]].s)
    THEN problem_data[RawKeys[Min({j \in 1..Len(RawKeys) :
             problem_data[RawKeys[j]].t = "str" /\ NonBlank(problem_data[RawKeys[j]].s)})]]
    ELSE NoRaw

\* Mutant: the explainer runs whatever the verifier said.
AfterVerifyAlwaysExplain(vr) == "explain"

\* Mutant: a failed verification sends the invocation back to the solver.
AfterVerifyRetry(vr) == IF ~vr.ok THEN "solve" ELSE "explain"

\* The stage after a verification.
AfterVerify(vr) == IF ~vr.ok THEN "done" ELSE "explain"

\* The Response of a verified answer.
SuccessResponse(ex, ans, route) ==
    Stage5Response(TRUE, FormatAnswer(ans), ExplainerExplain(ex, ans),
                   NoneStr, NoneStr, NoneStr, route, NoneStr)

\* solve up to the dispatch on the route: the gate decides, and UNTRUSTED
\* returns at once.
Gate(i) ==
    /\ pc[i] = "gate"
    /\ LET d == Decide(input[i])
       IN  /\ decision' = [decision EXCEPT ![i] = d]
           /\ calls' = [calls EXCEPT ![i] = Append(@, Call("Gate", NoneExtracted, NoneAnswer))]
           /\ pc' = [pc EXCEPT ![i] = AfterGate(d.route)]
           /\ response' = [response EXCEPT ![i] =
                  IF AfterGate(d.route) = "done" THEN UntrustedResponse(d) ELSE @]
    /\ UNCHANGED <<input, extracted, answer, verify_result, raised>>

\* _handle_structured
Structured(i) ==
    /\ pc[i] = "structured"
    /\ LET out == HandleStructured(input[i], decision[i])
       IN  /\ response' = [response EXCEPT ![i] = out.val]
           /\ raised' = [raised EXCEPT ![i] = out.exc]
    /\ pc' = [pc EXCEPT ![i] = "done"]
    /\ UNCHANGED <<input, decision, extracted, answer, verify_result, calls>>

\* _handle_patternable up to the extraction
Extractor(i) ==
    /\ pc[i] = "extract"
    /\ LET rawv == PipelineRaw(input[i])
           ex == Extract(rawv.s)
       IN  IF rawv.t = "None"
           THEN /\ response' = [response EXCEPT ![i] =
                       HaltResponse("NO_RAW_TEXT", decision[i].route,
                                    "No raw text found in input")]
                /\ pc' = [pc EXCEPT ![i] = "done"]
                /\ UNCHANGED <<extracted, calls>>
           ELSE /\ extracted' = [extracted EXCEPT ![i] = ex]
                /\ calls' = [calls EXCEPT ![i] =
                       Append(@, Call("Extractor", NoneExtracted, NoneAnswer))]
                /\ IF ex.kind = "None"
                   THEN /\ response' = [response EXCEPT ![i] =
                               HaltResponse("EXTRACT_FAIL", decision[i].route,
                                   "Deterministic extraction failed - pattern not recognized")]
                        /\ pc' = [pc EXCEPT ![i] = "done"]
                   ELSE /\ pc' = [pc EXCEPT ![i] = "solve"]
                        /\ UNCHANGED response
    /\ UNCHANGED <<input, decision, answer, verify_result, raised>>

\* Mutant: the solver keeps its result in a slot of the shared instance,
\* which every invocation then reads.
SolverSharedSlot(i) ==
    /\ pc[i] = "solve"
    /\ LET out == SolverSolve(extracted[i])
       IN  /\ calls' = [calls EXCEPT ![i] = Append(@, Call("Solver", extracted[i], NoneAnswer))]
           /\ IF out.exc # "None"
              THEN /\ response' = [response EXCEPT ![i] =
                          HaltResponse("SOLVER_ERROR", decision[i].route, "Solver exception")]
                   /\ pc' = [pc EXCEPT ![i] = "done"]
                   /\ UNCHANGED answer
              ELSE /\ answer' = [j \in Invocations |-> out.val]
                   /\ pc' = [pc EXCEPT ![i] = "verify"]
                   /\ UNCHANGED response
    /\ UNCHANGED <<input, decision, extracted, verify_result, raised>>

\* Mutant: the solver adds its result to a running total kept by the
\* instance across calls.
SolverAccumulates(i) ==
    /\ pc[i] = "solve"
    /\ LET out == SolverSolve(extracted[i])
           earlier == {j \in Invocations : j # i /\ answer[j].t = "int"}
       IN  /\ calls' = [calls EXCEPT ![i] = Append(@, Call("Solver", extracted[i], NoneAnswer))]
           /\ IF out.exc # "None"
              THEN /\ response' = [response EXCEPT ![i] =
                          HaltResponse("SOLVER_ERROR", decision[i].route, "Solver exception")]
                   /\ pc' = [pc EXCEPT ![i] = "done"]
                   /\ UNCHANGED answer
              ELSE /\ answer' = [answer EXCEPT ![i] =
                          IF out.val.t = "int" /\ earlier # {}
                          THEN IntAnswer(out.val.v + answer[CHOOSE j \in earlier : TRUE].v)
                          ELSE out.val]
                   /\ pc' = [pc EXCEPT ![i] = "verify"]
                   /\ UNCHANGED response
    /\ UNCHANGED <<input, decision, extracted, verify_result, raised>>

\* the try block around solver.solve
Solver(i) ==
    /\ pc[i] = "solve"
    /\ LET out == SolverSolve(extracted[i])
       IN  /\ calls' = [calls EXCEPT ![i] = Append(@, Call("Solver", extracted[i], NoneAnswer))]
           /\ IF out.exc # "None"
              THEN /\ response' = [response EXCEPT ![i] =
                          HaltResponse("SOLVER_ERROR", decision[i].route, "Solver exception")]
                   /\ pc' = [pc EXCEPT ![i] = "done"]
                   /\ UNCHANGED answer
              ELSE /\ answer' = [answer EXCEPT ![i] = out.val]
                   /\ pc' = [pc EXCEPT ![i] = "verify"]
                   /\ UNCHANGED response
    /\ UNCHANGED <<input, decision, extracted, verify_result, raised>>

\* verifier.verify and the halt on a failed verification
Verifier(i) ==
    /\ pc[i] = "verify"
    /\ LET vr == VerifierVerify(extracted[i], answer[i])
       IN  /\ verify_result' = [verify_result EXCEPT ![i] = vr]
           /\ calls' = [calls EXCEPT ![i] = Append(@, Call("Verifier", extracted[i], answer[i]))]
           /\ pc' = [pc EXCEPT ![i] = AfterVerify(vr)]
           /\ response' = [response EXCEPT ![i] =
                  IF AfterVerify(vr) = "done"
                  THEN VerifyHaltResponse(vr, decision[i].route) ELSE @]
    /\ UNCHANGED <<input, decision, extracted, answer, raised>>

\* explainer.explain, _format_answer and the successful return
Explainer(i) ==
    /\ pc[i] = "explain"
    /\ calls' = [calls EXCEPT ![i] = Append(@, Call("Explainer", extracted[i], answer[i]))]
    /\ response' = [response EXCEPT ![i] =
           SuccessResponse(extracted[i], answer[i], decision[i].route)]
    /\ pc' = [pc EXCEPT ![i] = "done"]
    /\ UNCHANGED <<input, decision, extracted, answer, verify_result, raised>>

\* One call of solve, on any input.
Init ==
    /\ \E problem_data \in Inputs :
           input = [i \in Invocations |-> IF i = 1 THEN problem_data ELSE EmptyInput]
    /\ pc = [i \in Invocations |-> IF i = 1 THEN "gate" ELSE "idle"]
    /\ decision = [i \in Invocations |-> NoDecision]
    /\ extracted = [i \in Invocations |-> NoneExtracted]
    /\ answer = [i \in Invocations |-> NoneAnswer]
    /\ verify_result = [i \in Invocations |-> NoVerifyResult]
    /\ response = [i \in Invocations |-> NoResponse]
    /\ raised = [i \in Invocations |-> NoneStr]
    /\ calls = [i \in Invocations |-> <<>>]

Next ==
    \E i \in Invocations :
        \/ Gate(i)
        \/ Structured(i)
        \/ Extractor(i)
        \/ Solver(i)
        \/ Verifier(i)
        \/ Explainer(i)

Spec == Init /\ [][Next]_vars

\* solve has returned a Response
HasResponse(i) == pc[i] = "done" /\ raised[i] = NoneStr

\* The stages invocation i has invoked, in order.
Stages(i) == [j \in DOMAIN calls[i] |-> calls[i][j].stage]
Invoked(i, stage) == \E j \in DOMAIN calls[i] : calls[i][j].stage = stage
StageOrder == <<"Gate", "Extractor", "Solver", "Verifier", "Explainer">>

\* ------------------------------------------------- verifier mutation test
\* The answers a faulty solver may hand to the verifier for variant ex.
CandidateAnswers(ex) ==
    LET right == SolverSolve(ex).val
    IN  {right} \cup
        (CASE ex.kind \in {COMBINATORICS, ALGEBRA, NUMBER_THEORY} ->
                {IntAnswer(v) : v \in {-1, 0, 1, right.v - 1, right.v + 1, 2 * right.v}}
           [] ex.kind = GEOMETRY ->
                {FloatAnswer(v) : v \in {0, right.v - 1, right.v + 1, ToFloat(1), 2 * right.v}}
           [] ex.kind = PROBABILITY ->
                {FloatAnswer(v) : v \in {-1, 0, 1, ToFloat(1) \div 2, ToFloat(1),
                                         ToFloat(1) + 1}}
           [] ex.kind = CALCULUS ->
                {IntAnswer(0), ListAnswer(<<>>),
                 ListAnswer(<< <<"max", 0, 0, FALSE>> >>),
                 ListAnswer(<< <<"saddle", 0, 0, FALSE>> >>),
                 ListAnswer(<< <<"max", 0, 0, FALSE>>, <<"min", 1, 0, FALSE>>, <<"max", 2, 0, FALSE>> >>)})

\* solve on a text input, stopped after a Solver stage that returned some
\* answer of the variant's type, right or wrong.
InitVerify ==
    \E t \in TextLibrary :
      LET problem_data ==
              ProblemData("None", Absent, Absent, Absent, Absent, Absent, PyStr(t), Absent)
          ex == Extract(t)
      IN  /\ Decide(problem_data).route = PATTERNABLE
          /\ ex.kind # "None"
          /\ SolverSolve(ex).exc = "None"
          /\ \E ans \in CandidateAnswers(ex) :
               /\ input = [i \in Invocations |-> IF i = 1 THEN problem_data ELSE EmptyInput]
               /\ pc = [i \in Invocations |-> IF i = 1 THEN "verify" ELSE "idle"]
               /\ decision = [i \in Invocations |->
                      IF i = 1 THEN Decide(problem_data) ELSE NoDecision]
               /\ extracted = [i \in Invocations |-> IF i = 1 THEN ex ELSE NoneExtracted]
               /\ answer = [i \in Invocations |-> IF i = 1 THEN ans ELSE NoneAnswer]
               /\ verify_result = [i \in Invocations |-> NoVerifyResult]
               /\ response = [i \in Invocations |-> NoResponse]
               /\ raised = [i \in Invocations |-> NoneStr]
               /\ calls = [i \in Invocations |->
                      IF i = 1
                      THEN <<Call("Gate", NoneExtracted, NoneAnswer),
                             Call("Extractor", NoneExtracted, NoneAnswer),
                             Call("Solver", ex, NoneAnswer)>>
                      ELSE <<>>]

NextVerify == \E i \in Invocations : Verifier(i) \/ Explainer(i)

SpecVerify == InitVerify /\ [][NextVerify]_vars

\* -------------------------------------------------- verifier called alone
\* The case lists a caller may put into a CombinatoricsExtracted, those with
\* more men than there are included.
CaseLists == UNION {[1..len -> (0..MaxNum) \X (0..1)] : len \in 0..2}

\* The variants handed to Stage5Verifier.verify by a caller of its own.
DirectVariants ==
    {[kind |-> COMBINATORICS, n1 |-> n1, k1 |-> 0, n2 |-> n2, k2 |-> 0, cases |-> cases] :
        n1 \in 1..2, n2 \in 1..2, cases \in CaseLists}
    \cup {Extract(t) : t \in CanonicalTexts}

\* Stage5Verifier.verify(extracted, answer), called outside the pipeline
VerifyCall(i) ==
    /\ pc[i] = "call"
    /\ verify_result' = [verify_result EXCEPT ![i] =
           VerifierVerify(extracted[i], answer[i])]
    /\ calls' = [calls EXCEPT ![i] = Append(@, Call("Verifier", extracted[i], answer[i]))]
    /\ pc' = [pc EXCEPT ![i] = "returned"]
    /\ UNCHANGED <<input, decision, extracted, answer, response, raised>>

InitChecks ==
    \E ex \in DirectVariants :
      \E ans \in CandidateAnswers(ex) :
        /\ input = [i \in Invocations |-> EmptyInput]
        /\ pc = [i \in Invocations |-> IF i = 1 THEN "call" ELSE "idle"]
        /\ decision = [i \in Invocations |-> NoDecision]
        /\ extracted = [i \in Invocations |-> IF i = 1 THEN ex ELSE NoneExtracted]
        /\ answer = [i \in Invocations |-> IF i = 1 THEN ans ELSE NoneAnswer]
        /\ verify_result = [i \in Invocations |-> NoVerifyResult]
        /\ response = [i \in Invocations |-> NoResponse]
        /\ raised = [i \in Invocations |-> NoneStr]
        /\ calls = [i \in Invocations |-> <<>>]

NextChecks == \E i \in Invocations : VerifyCall(i)

SpecChecks == InitChecks /\ [][NextChecks]_vars

\* The variants whose verifier recomputes the answer.
RecomputedKinds == {COMBINATORICS, ALGEBRA, NUMBER_THEORY, GEOMETRY}

\* The verifier has been handed an answer other than the solver's.
WrongAnswerVerified(i) ==
    /\ Invoked(i, "Verifier")
    /\ answer[i] # SolverSolve(extracted[i]).val

\* ---------------------------------------------------------------- claims

\* C1: every Response with ok = false has the empty text and no answer,
\* whichever stage halted.
C1_HaltIsSilent ==
    \A i \in Invocations :
        (HasResponse(i) /\ ~response[i].ok) =>
            (response[i].text = EmptyText /\ response[i].answer = NoneAnswer)

\* A verification failure has been returned as a halt.
C1_Witness ==
    /\ HasResponse(1)
    /\ ~response[1].ok
    /\ response[1].guard_code = "VERIFY_FAIL"
    /\ Invoked(1, "Verifier")

\* C2 (as stated): for each of the six variants, an answer that disagrees
\* with the solver's value is refused with VERIFY_FAIL.
C2_FailClosedAllVariants ==
    \A i \in Invocations :
        WrongAnswerVerified(i) =>
            (~verify_result[i].ok /\ verify_result[i].guard_code = "VERIFY_FAIL")

\* C2 (amended): for the four variants whose verifier recomputes the answer
\* (combinatorics, algebra, number theory, geometry), an answer that
\* disagrees with the solver's value is refused with VERIFY_FAIL, and solve
\* returns that halt, never a success carrying the wrong answer.
C2_FailClosedRecomputed ==
    \A i \in Invocations :
        (WrongAnswerVerified(i) /\ extracted[i].kind \in RecomputedKinds) =>
            /\ ~verify_result[i].ok
            /\ verify_result[i].guard_code = "VERIFY_FAIL"
            /\ pc[i] = "done"
            /\ ~response[i].ok
            /\ response[i].guard_code = "VERIFY_FAIL"
            /\ response[i].answer = NoneAnswer

\* A wrong divisor sum has been handed to the verifier and refused.
C2_Witness ==
    /\ WrongAnswerVerified(1)
    /\ extracted[1].kind = NUMBER_THEORY
    /\ extracted[1].number > 1
    /\ response[1].guard_code = "VERIFY_FAIL"

\* C3: solve returns a Response on every input; no exception leaves it.
C3_NoExceptionEscapes ==
    \A i \in Invocations :
        pc[i] = "done" =>
            /\ raised[i] = NoneStr
            /\ (response[i].ok \/ response[i].guard_code # NoneStr)

\* C4: the gate's route is one of the three, and a returned Response carries
\* the route the gate decided.
C4_RouteTotality ==
    \A i \in Invocations :
        /\ Invoked(i, "Gate") => decision[i].route \in GateRoute
        /\ HasResponse(i) =>
              /\ response[i].route = decision[i].route
              /\ response[i].route \in GateRoute

\* Each of the three routes... here: an UNTRUSTED input has been answered.
C4_Witness ==
    /\ HasResponse(1)
    /\ response[1].route = UNTRUSTED
    /\ decision[1].route = UNTRUSTED

\* C5: in a GateDecision the guard fields are populated iff the route is
\* UNTRUSTED, and then guard_code is OBS_UNTRUSTED and guard_action is STOP.
C5_GuardFieldsIffUntrusted ==
    \A i \in Invocations :
        Invoked(i, "Gate") =>
            LET d == decision[i]
            IN  /\ \A f \in {"guard_code", "guard_state", "guard_action", "reason"} :
                       (d[f] # NoneStr) <=> (d.route = UNTRUSTED)
                /\ d.route = UNTRUSTED =>
                       (d.guard_code = "OBS_UNTRUSTED" /\ d.guard_action = "STOP")

\* The gate has decided PATTERNABLE, and the gate has decided UNTRUSTED,
\* are both reached; this one is the PATTERNABLE decision.
C5_Witness ==
    /\ Invoked(1, "Gate")
    /\ decision[1].route = PATTERNABLE
    /\ decision[1].reason = NoneStr

\* The input carries the recognized discriminator and four integer fields.
RecognizedShape(problem_data) ==
    /\ problem_data.kind = "nCk_times_nCk"
    /\ problem_data.n1.t = "int"
    /\ problem_data.k1.t = "int"
    /\ problem_data.n2.t = "int"
    /\ problem_data.k2.t = "int"

\* C6: the route is STRUCTURED iff the discriminator is nCk_times_nCk and
\* n1, k1, n2, k2 are all present and integers, whatever text the input
\* also carries.
C6_StructuredIff ==
    \A i \in Invocations :
        Invoked(i, "Gate") =>
            (decision[i].route = STRUCTURED <=> RecognizedShape(input[i]))

\* A structured input that also carries a patternable text is STRUCTURED.
C6_Witness ==
    /\ Invoked(1, "Gate")
    /\ decision[1].route = STRUCTURED
    /\ input[1].problem.t = "str"
    /\ IsPatternable(input[1].problem.s)

\* The first of raw, problem, text that holds a non-blank string.
SelectedText(problem_data) ==
    IF problem_data.raw.t = "str" /\ problem_data.raw.s # <<>>
    THEN problem_data.raw
    ELSE IF problem_data.problem.t = "str" /\ problem_data.problem.s # <<>>
    THEN problem_data.problem
    ELSE IF problem_data.text.t = "str" /\ problem_data.text.s # <<>>
    THEN problem_data.text
    ELSE NoRaw

\* The text satisfies one of the six keyword disjunctions.
MatchesSomeDomain(raw) ==
    \E Kw \in 1..6 :
        CASE Kw = 1 -> KwCombinatorics(Lower(raw))
          [] Kw = 2 -> KwAlgebra(Lower(raw))
          [] Kw = 3 -> KwNumberTheory(Lower(raw))
          [] Kw = 4 -> KwGeometry(Lower(raw))
          [] Kw = 5 -> KwProbability(Lower(raw))
          [] Kw = 6 -> KwCalculus(Lower(raw))

\* C7: for an input that is not STRUCTURED the route is PATTERNABLE iff the
\* first of raw, problem, text holding non-blank text exists and that text
\* matches a keyword disjunction, and UNTRUSTED otherwise; later fields are
\* not consulted.
C7_FirstTextDecides ==
    \A i \in Invocations :
        (Invoked(i, "Gate") /\ ~RecognizedShape(input[i])) =>
            LET sel == SelectedText(input[i])
            IN  /\ decision[i].route \in {PATTERNABLE, UNTRUSTED}
                /\ decision[i].route = PATTERNABLE <=>
                       (sel.t = "str" /\ MatchesSomeDomain(sel.s))

\* raw holds a text that matches nothing, problem one that matches: UNTRUSTED.
C7_Witness ==
    /\ Invoked(1, "Gate")
    /\ input[1].raw.t = "str"
    /\ input[1].raw.s # <<>>
    /\ ~IsPatternable(input[1].raw.s)
    /\ input[1].problem.t = "str"
    /\ input[1].problem.s # <<>>
    /\ IsPatternable(input[1].problem.s)
    /\ decision[1].route = UNTRUSTED

\* C8: a pre-structured input (four integer fields) whose discriminator
\* names an unknown kind is answered by a halt with UNSUPPORTED_KIND.
C8_UnknownKindHalts ==
    \A i \in Invocations :
        ( /\ HasResponse(i)
          /\ input[i].kind \notin {"None", "nCk_times_nCk"}
          /\ \A f \in {"n1", "k1", "n2", "k2"} : input[i][f].t = "int" ) =>
            (~response[i].ok /\ response[i].guard_code = "UNSUPPORTED_KIND")

\* C9: the Explainer is invoked only right after the Verifier returned
\* ok = true on the same variant and answer, and never on a path that ends
\* in a halt.
C9_ExplainerOnlyAfterVerify ==
    \A i \in Invocations :
        /\ \A j \in DOMAIN calls[i] :
               calls[i][j].stage = "Explainer" =>
                   /\ j > 1
                   /\ calls[i][j - 1].stage = "Verifier"
                   /\ calls[i][j - 1].ex = calls[i][j].ex
                   /\ calls[i][j - 1].ans = calls[i][j].ans
                   /\ verify_result[i].ok
        /\ (HasResponse(i) /\ ~response[i].ok) => ~Invoked(i, "Explainer")

\* The Explainer has run.
C9_Witness ==
    /\ Invoked(1, "Explainer")
    /\ HasResponse(1)
    /\ response[1].ok

\* The guard code of the halt each stage produces.
HaltsOf(stage) ==
    CASE stage = "Gate" -> {"OBS_UNTRUSTED"}
      [] stage = "Extractor" -> {"EXTRACT_FAIL"}
      [] stage = "Solver" -> {"SOLVER_ERROR"}
      [] stage = "Verifier" -> {"VERIFY_FAIL", "VERIFY_ERROR"}
      [] OTHER -> {}

\* C10: the stages run at most once each, in the order Gate, Extractor,
\* Solver, Verifier, Explainer, each only after the one before succeeded;
\* the first that fails is the last one invoked, its halt is the Response,
\* and an invocation that has returned takes no further step.
C10_StrictSequence ==
    \A i \in Invocations :
        /\ Len(calls[i]) <= Len(StageOrder)
        /\ Stages(i) = SubSeq(StageOrder, 1, Len(calls[i]))
        /\ Invoked(i, "Extractor") => decision[i].route = PATTERNABLE
        /\ Invoked(i, "Solver") => extracted[i].kind \in PatternKind
        /\ Invoked(i, "Verifier") => answer[i] # NoneAnswer
        /\ Invoked(i, "Explainer") => verify_result[i].ok
        /\ (HasResponse(i) /\ ~response[i].ok /\ response[i].guard_code # "NO_RAW_TEXT") =>
               response[i].guard_code \in HaltsOf(Stages(i)[Len(calls[i])])
        /\ pc[i] = "done" =>
               ~ENABLED (Gate(i) \/ Structured(i) \/ Extractor(i) \/ Solver(i)
                         \/ Verifier(i) \/ Explainer(i))

\* A solver fault has ended an invocation after three stages.
C10_Witness ==
    /\ HasResponse(1)
    /\ response[1].guard_code = "SOLVER_ERROR"
    /\ Stages(1) = <<"Gate", "Extractor", "Solver">>

\* The number of k-element subsets of an n-element set, by counting them.
Choose(n, k) == Cardinality({S \in SUBSET (1..n) : Cardinality(S) = k})

\* C11: on route UNTRUSTED solve returns after the gate alone; on route
\* STRUCTURED no stage but the gate is invoked and the answer returned is
\* C(n1,k1) * C(n2,k2), computed from the input's fields.
C11_ShortCircuit ==
    \A i \in Invocations :
        /\ (pc[i] = "done" /\ decision[i].route \in {UNTRUSTED, STRUCTURED}) =>
               Stages(i) = <<"Gate">>
        /\ (HasResponse(i) /\ decision[i].route = STRUCTURED) =>
               /\ response[i].ok
               /\ response[i].answer =
                      IntAnswer(Choose(input[i].n1.v, input[i].k1.v)
                                * Choose(input[i].n2.v, input[i].k2.v))

\* A STRUCTURED input that carries a patternable text has been answered
\* directly.
C11_Witness ==
    /\ HasResponse(1)
    /\ decision[1].route = STRUCTURED
    /\ input[1].problem.t = "str"
    /\ IsPatternable(input[1].problem.s)
    /\ response[1].ok
    /\ Stages(1) = <<"Gate">>

\* The text _handle_patternable hands to the extractor.
ExtractedFrom(i) == SelectedText(input[i]).s

\* The rules that match the text, by kind.
Matching(raw) ==
    {k \in PatternKind :
        \/ k = COMBINATORICS /\ TryCombinatorics(raw).kind # "None"
        \/ k = ALGEBRA /\ TryAlgebra(raw).kind # "None"
        \/ k = NUMBER_THEORY /\ TryNumberTheory(raw).kind # "None"
        \/ k = GEOMETRY /\ TryGeometry(raw).kind # "None"
        \/ k = PROBABILITY /\ TryProbability(raw).kind # "None"
        \/ k = CALCULUS /\ TryCalculus(raw).kind # "None"}

\* C12: extract returns the result of the first rule, in the order
\* combinatorics, algebra, number theory, geometry, probability, calculus,
\* that matches the text, whatever later rules would give; when no rule
\* matches it returns nothing and solve halts with EXTRACT_FAIL before the
\* solver, with no variant made up.
C12_FirstRuleWins ==
    \A i \in Invocations :
        Invoked(i, "Extractor") =>
            LET raw == ExtractedFrom(i)
            IN  /\ extracted[i] =
                     (IF TryCombinatorics(raw).kind # "None" THEN TryCombinatorics(raw)
                      ELSE IF TryAlgebra(raw).kind # "None" THEN TryAlgebra(raw)
                      ELSE IF TryNumberTheory(raw).kind # "None" THEN TryNumberTheory(raw)
                      ELSE IF TryGeometry(raw).kind # "None" THEN TryGeometry(raw)
                      ELSE IF TryProbability(raw).kind # "None" THEN TryProbability(raw)
                      ELSE IF TryCalculus(raw).kind # "None" THEN TryCalculus(raw)
                      ELSE NoneExtracted)
                /\ Matching(raw) = {} =>
                       /\ extracted[i] = NoneExtracted
                       /\ pc[i] = "done"
                       /\ ~response[i].ok
                       /\ response[i].guard_code = "EXTRACT_FAIL"
                       /\ ~Invoked(i, "Solver")
                       /\ answer[i] = NoneAnswer

\* A text that the number theory and the probability rules both match has
\* been extracted as number theory.
C12_Witness ==
    /\ Invoked(1, "Extractor")
    /\ {NUMBER_THEORY, PROBABILITY} \subseteq Matching(ExtractedFrom(1))
    /\ extracted[1].kind = NUMBER_THEORY

\* A text that no rule matches has been halted with EXTRACT_FAIL.
C12_WitnessNoMatch ==
    /\ Invoked(1, "Extractor")
    /\ Matching(ExtractedFrom(1)) = {}
    /\ response[1].guard_code = "EXTRACT_FAIL"

\* ------------------------------------------- two invocations, one instance
\* {"problem": text}
TextInput(t) ==
    ProblemData("None", Absent, Absent, Absent, Absent, Absent, PyStr(t), Absent)

\* {"kind": "nCk_times_nCk", "n1": n1, "k1": k1, "n2": n2, "k2": k2}
StructuredInput(n1, k1, n2, k2) ==
    ProblemData("nCk_times_nCk", PyInt(n1), PyInt(k1), PyInt(n2), PyInt(k2),
                Absent, Absent, Absent)

\* Inputs that between them end solve at every one of its returns.
PairInputs ==
    {TextInput(CommitteeText(2, 2, 2, 1, 1)),
     TextInput(AlgebraText(1, 1)),
     TextInput(AlgebraText(0, 0)),
     TextInput(NumberTheoryText(6)),
     TextInput(GeometryText(3, 4)),
     TextInput(ProbabilityText(N(2), 7)),
     TextInput(CalculusText("", -1, -3, 0, 1)),
     TextInput(CalculusText("", 0, 1, 1, 0)),
     TextInput(<<W("hello"), W("world")>>),
     TextInput(<<W("dice"), W("probability")>>),
     StructuredInput(1, 1, 1, 1),
     StructuredInput(-1, 1, 1, 1)}

\* _handle_patternable as one function of its input.
HandlePatternable(problem_data, d) ==
    LET rawv == PipelineRaw(problem_data)
        ex == Extract(rawv.s)
        out == SolverSolve(ex)
        vr == VerifierVerify(ex, out.val)
    IN  IF rawv.t = "None"
        THEN HaltResponse("NO_RAW_TEXT", d.route, "No raw text found in input")
        ELSE IF ex.kind = "None"
        THEN HaltResponse("EXTRACT_FAIL", d.route,
                          "Deterministic extraction failed - pattern not recognized")
        ELSE IF out.exc # "None"
        THEN HaltResponse("SOLVER_ERROR", d.route, "Solver exception")
        ELSE IF ~vr.ok THEN VerifyHaltResponse(vr, d.route)
        ELSE SuccessResponse(ex, out.val, d.route)

\* Stage5Pipeline.solve as one function of its input: what a call made
\* alone returns or raises.
Solve(problem_data) ==
    LET d == Decide(problem_data)
    IN  IF d.route = UNTRUSTED THEN Returned(UntrustedResponse(d))
        ELSE IF d.route = STRUCTURED THEN HandleStructured(problem_data, d)
        ELSE [exc |-> "None", val |-> HandlePatternable(problem_data, d)]

\* Two calls of solve on one pipeline, their steps interleaved in any order
\* (one call after the other included).
InitTwo ==
    /\ input \in [Invocations -> PairInputs]
    /\ pc = [i \in Invocations |-> "gate"]
    /\ decision = [i \in Invocations |-> NoDecision]
    /\ extracted = [i \in Invocations |-> NoneExtracted]
    /\ answer = [i \in Invocations |-> NoneAnswer]
    /\ verify_result = [i \in Invocations |-> NoVerifyResult]
    /\ response = [i \in Invocations |-> NoResponse]
    /\ raised = [i \in Invocations |-> NoneStr]
    /\ calls = [i \in Invocations |-> <<>>]

SpecTwo == InitTwo /\ [][Next]_vars

\* C13: two calls of solve on the same input end the same way, with
\* Responses equal in every field.
C13_Idempotent ==
    \A i, j \in Invocations :
        (pc[i] = "done" /\ pc[j] = "done" /\ input[i] = input[j]) =>
            (response[i] = response[j] /\ raised[i] = raised[j])

\* Two calls on the same text have both returned a success.
C13_Witness ==
    /\ input[1] = input[2]
    /\ HasResponse(1) /\ HasResponse(2)
    /\ response[1].ok /\ response[2].ok
    /\ response[1].answer.t = "str"

\* C14: under every interleaving of the stage steps of two calls on one
\* pipeline, each call ends as it would when made alone.
C14_NoInterference ==
    \A i \in Invocations :
        pc[i] = "done" =>
            (response[i] = Solve(input[i]).val /\ raised[i] = Solve(input[i]).exc)

\* Two calls on different texts have both run all five stages and returned
\* different answers.
C14_Witness ==
    /\ input[1] # input[2]
    /\ HasResponse(1) /\ HasResponse(2)
    /\ response[1].ok /\ response[2].ok
    /\ response[1].answer # response[2].answer
    /\ Stages(1) = StageOrder /\ Stages(2) = StageOrder

\* The values a numeral of a text is changed to.
VariedNumbers == 0..MaxTarget
VariedCoefficients == -MaxNum..MaxNum

\* The texts that differ from text t in exactly one numeric field.
NumberVariations(t) ==
    LET nums == {j \in DOMAIN t : t[j].k = "n"}
        polys == {j \in DOMAIN t : t[j].k = "p"}
    IN  ({[t EXCEPT ![j] = N(v)] : j \in nums, v \in VariedNumbers}
         \cup {[t EXCEPT ![j].b = v] : j \in polys, v \in VariedCoefficients}
         \cup {[t EXCEPT ![j].c = v] : j \in polys, v \in VariedCoefficients}
         \cup {[t EXCEPT ![j].d = v] : j \in polys, v \in VariedCoefficients})
        \ {t}

\* solve has answered the text input of invocation i with a success.
SolvedText(i) ==
    /\ HasResponse(i)
    /\ response[i].ok
    /\ decision[i].route = PATTERNABLE

\* No one-field variation of the text of invocation i is answered with the
\* same formatted answer.
Sensitive(i) ==
    \A t2 \in NumberVariations(ExtractedFrom(i)) :
        Solve(TextInput(t2)).val.answer # response[i].answer

\* C15 (as stated): for every text input solved successfully, changing any
\* one numeric field to a different value changes the formatted answer.
C15_SensitiveAllVariants ==
    \A i \in Invocations : SolvedText(i) => Sensitive(i)

\* C15 (amended): for every algebra text solved successfully, changing the
\* sum of squares or the product to a different value changes the formatted
\* answer (or ends in a halt, which has no answer).
C15_SensitiveAlgebra ==
    \A i \in Invocations :
        (SolvedText(i) /\ extracted[i].kind = ALGEBRA) => Sensitive(i)

\* An algebra text has been solved, and a one-field variation of it is
\* solved too, with another answer.
C15_Witness ==
    /\ SolvedText(1)
    /\ extracted[1].kind = ALGEBRA
    /\ \E t2 \in NumberVariations(ExtractedFrom(1)) :
           /\ Solve(TextInput(t2)).val.ok
           /\ Solve(TextInput(t2)).val.answer # response[1].answer

\* solve has answered the text t with a success on route PATTERNABLE whose
\* formatted answer is the string s.
Answers(i, t, s) ==
    input[i] = TextInput(t) =>
        /\ raised[i] = NoneStr
        /\ response[i].ok
        /\ response[i].route = PATTERNABLE
        /\ response[i].answer = StrAnswer(s)

\* C16: the six canonical texts are answered with a success on route
\* PATTERNABLE carrying "180", "49", "1170", "26", "0.125" and
\* "max at x=1.00 (f=5.00), min at x=3.00 (f=1.00)".
C16_CanonicalAnswers ==
    \A i \in Invocations :
        pc[i] = "done" =>
            /\ Answers(i, CanonicalCommittee, <<"1", "8", "0">>)
            /\ Answers(i, CanonicalAlgebra, <<"4", "9">>)
            /\ Answers(i, CanonicalNumberTheory, <<"1", "1", "7", "0">>)
            /\ Answers(i, CanonicalGeometry, <<"2", "6">>)
            /\ Answers(i, CanonicalProbability, <<"0", ".", "1", "2", "5">>)
            /\ Answers(i, CanonicalCalculus,
                       <<"max", " at x=", "1", ".", "0", "0", " (f=", "5", ".", "0", "0", ")",
                         ", ",
                         "min", " at x=", "3", ".", "0", "0", " (f=", "1", ".", "0", "0", ")">>)

\* The canonical dice text has been answered.
C16_Witness ==
    /\ HasResponse(1)
    /\ input[1] = TextInput(CanonicalProbability)
    /\ extracted[1].num_dice = 3
    /\ response[1].ok

\* C17: every Response with ok = true, on route PATTERNABLE and on route
\* STRUCTURED, carries its answer as a formatted string.
C17_AnswerIsString ==
    \A i \in Invocations :
        (HasResponse(i) /\ response[i].ok) => response[i].answer.t = "str"

\* The guard codes of the Response.
GuardCodes ==
    {"OBS_UNTRUSTED", "NO_RAW_TEXT", "EXTRACT_FAIL", "SOLVER_ERROR",
     "VERIFY_FAIL", "VERIFY_ERROR", "UNSUPPORTED_KIND"}

\* C18: a Response with ok = false carries a guard code of the fixed set,
\* the same guard state, the action STOP and a reason; a Response with
\* ok = true carries none of the four. The code is OBS_UNTRUSTED exactly on
\* route UNTRUSTED, and ok = true occurs only on STRUCTURED or PATTERNABLE.
C18_GuardShape ==
    \A i \in Invocations :
        HasResponse(i) =>
            LET r == response[i]
            IN  /\ ~r.ok =>
                       /\ r.guard_code \in GuardCodes
                       /\ r.guard_state = r.guard_code
                       /\ r.guard_action = "STOP"
                       /\ r.reason # NoneStr
                /\ r.ok =>
                       /\ r.guard_code = NoneStr
                       /\ r.guard_state = NoneStr
                       /\ r.guard_action = NoneStr
                       /\ r.reason = NoneStr
                       /\ r.route \in {STRUCTURED, PATTERNABLE}
                /\ (r.guard_code = "OBS_UNTRUSTED") <=> (r.route = UNTRUSTED)

\* An extraction failure has been returned.
C18_Witness ==
    /\ HasResponse(1)
    /\ ~response[1].ok
    /\ response[1].guard_code = "EXTRACT_FAIL"
    /\ response[1].route = PATTERNABLE

\* C19: every combinatorics variant the extractor produces is solved,
\* passes the three checks of the verifier and is answered with the sum over
\* its cases; the second committee text is answered with a success other
\* than "180".
C19_CombinatoricsVerifies ==
    \A i \in Invocations :
        (pc[i] = "done" /\ extracted[i].kind = COMBINATORICS) =>
            /\ verify_result[i].ok
            /\ response[i].ok
            /\ response[i].answer =
                   StrAnswer(StrInt(SumCases(extracted[i].n1, extracted[i].n2,
                                             extracted[i].cases)))
            /\ input[i] = TextInput(SecondCommittee) =>
                   response[i].answer # StrAnswer(<<"1", "8", "0">>)

\* The text is a committee problem in the canonical phrasing.
IsCommitteeText(t) ==
    /\ Len(t) = Len(CanonicalCommittee)
    /\ \A j \in {4, 7, 10, 16, 21} : t[j].k = "n"
    /\ t = CommitteeText(t[4].n, t[7].n, t[10].n, t[16].n, t[21].n)

\* The splits (k1, k2) of a committee of committee_size with at least
\* min_men of the total_men men and min_women of the total_women women.
Splits(committee_size, total_men, total_women, min_men, min_women) ==
    {p \in (0..total_men) \X (0..total_women) :
        /\ min_men <= p[1]
        /\ min_women <= p[2]
        /\ p[1] + p[2] = committee_size}

\* C20: the case list of the combinatorics rule holds exactly the splits,
\* in ascending k1 and without duplicates; the rule matches iff there is a
\* split, and returns nothing when there is none.
C20_CaseListIsSplits ==
    \A i \in Invocations :
        (Invoked(i, "Extractor") /\ IsCommitteeText(ExtractedFrom(i))) =>
            LET t == ExtractedFrom(i)
                S == Splits(t[4].n, t[7].n, t[10].n, t[16].n, t[21].n)
                ex == extracted[i]
            IN  /\ (ex.kind = COMBINATORICS) <=> (S # {})
                /\ S = {} => (ex = NoneExtracted /\ TryCombinatorics(t) = NoneExtracted)
                /\ S # {} =>
                       /\ ex.n1 = t[7].n /\ ex.n2 = t[10].n
                       /\ {ex.cases[j] : j \in DOMAIN ex.cases} = S
                       /\ Len(ex.cases) = Cardinality(S)
                       /\ \A j \in 1..(Len(ex.cases) - 1) :
                              ex.cases[j][1] < ex.cases[j + 1][1]

\* A committee text with more than one split has been extracted.
C20_Witness ==
    /\ Invoked(1, "Extractor")
    /\ IsCommitteeText(ExtractedFrom(1))
    /\ extracted[1].kind = COMBINATORICS
    /\ Len(extracted[1].cases) > 1

\* A committee text without a split has been refused.
C20_WitnessNoSplit ==
    /\ Invoked(1, "Extractor")
    /\ IsCommitteeText(ExtractedFrom(1))
    /\ extracted[1] = NoneExtracted
    /\ response[1].guard_code = "EXTRACT_FAIL"

\* C21: for an algebra variant the verifier accepts an answer exactly when
\* it equals sum_of_squares + 2 * product and is non-negative; the answer 0
\* for sum_of_squares = 0, product = 0 is accepted and returned as "0".
C21_AlgebraAcceptsNonNegative ==
    \A i \in Invocations :
        (Invoked(i, "Verifier") /\ extracted[i].kind = ALGEBRA) =>
            LET expected == extracted[i].x2_plus_y2 + 2 * extracted[i].xy
            IN  /\ verify_result[i].ok <=>
                       (answer[i] = IntAnswer(expected) /\ expected >= 0)
                /\ (pc[i] = "done" /\ answer[i] = IntAnswer(0) /\ expected = 0) =>
                       (response[i].ok /\ response[i].answer = StrAnswer(<<"0">>))

\* The target sum can be thrown with the dice of the variant.
Achievable(ex) ==
    ex.num_dice <= ex.target_sum /\ ex.target_sum <= 6 * ex.num_dice

\* C22: for a probability variant the verifier requires an answer in [0,1]
\* and a strictly positive one only when the target sum is achievable; for
\* an unachievable target the solver's 0 is accepted and solve returns
\* ok = true.
C22_UnachievableAccepted ==
    \A i \in Invocations :
        (Invoked(i, "Verifier") /\ extracted[i].kind = PROBABILITY) =>
            /\ verify_result[i].ok <=>
                   /\ 0 <= answer[i].v /\ answer[i].v <= ToFloat(1)
                   /\ Achievable(extracted[i]) => answer[i].v > 0
            /\ (pc[i] = "done" /\ ~Achievable(extracted[i])
                    /\ answer[i] = SolverSolve(extracted[i]).val) =>
                   (answer[i].v = 0 /\ response[i].ok)

RECURSIVE SumSet(_)
\* The sum of a finite set of numbers.
SumSet(S) ==
    IF S = {} THEN 0
    ELSE LET x == CHOOSE x \in S : TRUE IN x + SumSet(S \ {x})

\* sigma(n), from the definition of a divisor.
Sigma(n) == SumSet({d \in 1..n : n % d = 0})

\* C23: for n >= 1 the solver's divisor sum (product over the prime
\* factorization) equals the verifier's recomputation (sum of the divisors
\* enumerated up to the square root, each counted once), and both are
\* sigma(n).
C23_DivisorSumsAgree ==
    \A i \in Invocations :
        ( /\ Invoked(i, "Verifier")
          /\ extracted[i].kind = NUMBER_THEORY
          /\ extracted[i].number >= 1
          /\ answer[i] = SolverSolve(extracted[i]).val ) =>
            LET n == extracted[i].number
                divisors == GetDivisors(n)
            IN  /\ answer[i].v = SumSeq(divisors)
                /\ answer[i].v = Sigma(n)
                /\ \A j, k \in DOMAIN divisors : j < k => divisors[j] < divisors[k]
                /\ {divisors[j] : j \in DOMAIN divisors} = {d \in 1..n : n % d = 0}
                /\ verify_result[i].reason # CheckFailedReason(0)

\* The divisors of a square with several prime factors have been summed.
C23_Witness ==
    /\ Invoked(1, "Verifier")
    /\ extracted[1].kind = NUMBER_THEORY
    /\ extracted[1].number = 36
    /\ answer[1] = IntAnswer(91)
    /\ verify_result[1].ok

\* C24: a number theory text with target n is answered with sigma(n) for
\* every n >= 2 and halted with VERIFY_FAIL for n = 1 (sigma(1) = 1 does not
\* exceed the target) and for n = 0 (the solver gives 1, the verifier's
\* enumeration 0); no success carries an answer that does not exceed n.
C24_NumberTheoryOutcome ==
    \A i \in Invocations :
        (pc[i] = "done" /\ extracted[i].kind = NUMBER_THEORY) =>
            LET n == extracted[i].number
            IN  /\ raised[i] = NoneStr
                /\ n >= 2 =>
                       /\ response[i].ok
                       /\ response[i].answer = StrAnswer(StrInt(Sigma(n)))
                /\ n \in {0, 1} =>
                       /\ ~response[i].ok
                       /\ response[i].guard_code = "VERIFY_FAIL"
                       /\ answer[i] = IntAnswer(1)
                /\ n = 0 => SumSeq(GetDivisors(n)) = 0
                /\ response[i].ok => answer[i].v > n

\* The divisor sum of 1 has been refused.
C24_Witness ==
    /\ HasResponse(1)
    /\ extracted[1].kind = NUMBER_THEORY
    /\ extracted[1].number = 1
    /\ response[1].guard_code = "VERIFY_FAIL"

\* The integer coefficients a, b, c, d of a calculus variant.
Coefficient(ex, j) == ex.coefficients[j] \div FloatScale

\* The discriminant (2b)^2 - 4 (3a) c of the derivative 3ax^2 + 2bx + c.
Discriminant(ex) ==
    (2 * Coefficient(ex, 2)) * (2 * Coefficient(ex, 2))
    - 4 * (3 * Coefficient(ex, 1)) * Coefficient(ex, 3)

\* C25: a cubic with a # 0 whose derivative has a negative discriminant is
\* solved to the empty list, which the verifier accepts, and solve returns
\* ok = true with the empty formatted answer and no guard code.
C25_NegativeDiscriminant ==
    \A i \in Invocations :
        ( /\ pc[i] = "done"
          /\ extracted[i].kind = CALCULUS
          /\ Coefficient(extracted[i], 1) # 0
          /\ Discriminant(extracted[i]) < 0 ) =>
            /\ answer[i] = ListAnswer(<<>>)
            /\ verify_result[i].ok
            /\ raised[i] = NoneStr
            /\ response[i].ok
            /\ response[i].answer = StrAnswer(<<>>)
            /\ response[i].guard_code = NoneStr

\* A cubic without critical points has been answered.
C25_Witness ==
    /\ HasResponse(1)
    /\ extracted[1].kind = CALCULUS
    /\ Coefficient(extracted[1], 1) # 0
    /\ Discriminant(extracted[1]) < 0
    /\ response[1].ok

\* C26: for a cubic with a # 0 the solver returns, on a positive
\* discriminant, exactly two extrema, one max and one min, ascending by x, the
\* max first exactly when a > 0; on a zero discriminant the empty list; and in
\* every case at most two entries, each tagged max or min.
C26_ExtremaOfCubic ==
    \A i \in Invocations :
        ( /\ pc[i] = "done"
          /\ extracted[i].kind = CALCULUS
          /\ Coefficient(extracted[i], 1) # 0
          /\ answer[i].t = "list" ) =>
            LET l == answer[i].v
            IN  /\ Len(l) <= 2
                /\ \A j \in DOMAIN l : l[j][1] \in {"max", "min"}
                /\ Discriminant(extracted[i]) > 0 =>
                       /\ Len(l) = 2
                       /\ {l[1][1], l[2][1]} = {"max", "min"}
                       /\ l[1][2] <= l[2][2]
                       /\ l[1][1] = "max" <=> Coefficient(extracted[i], 1) > 0
                /\ Discriminant(extracted[i]) = 0 => l = <<>>

\* C27: a calculus variant with a = 0 and a non-negative discriminant makes
\* the solver divide by zero; solve does not raise but returns ok = false with
\* guard code SOLVER_ERROR, empty text and no answer, and neither the
\* verifier nor the explainer is invoked.
C27_SolverFaultHalts ==
    \A i \in Invocations :
        ( /\ pc[i] = "done"
          /\ extracted[i].kind = CALCULUS
          /\ Coefficient(extracted[i], 1) = 0
          /\ Discriminant(extracted[i]) >= 0 ) =>
            /\ raised[i] = NoneStr
            /\ ~response[i].ok
            /\ response[i].guard_code = "SOLVER_ERROR"
            /\ response[i].guard_state = "SOLVER_ERROR"
            /\ response[i].guard_action = "STOP"
            /\ response[i].text = EmptyText
            /\ response[i].answer = NoneAnswer
            /\ Stages(i) = <<"Gate", "Extractor", "Solver">>

\* The cubic 0x^3 + 1x^2 + 1x + 0 has been halted in the solver.
C27_Witness ==
    /\ pc[1] = "done"
    /\ extracted[1].kind = CALCULUS
    /\ Coefficient(extracted[1], 1) = 0
    /\ Coefficient(extracted[1], 2) = 1
    /\ response[1].guard_code = "SOLVER_ERROR"
    /\ ~Invoked(1, "Verifier")

\* The outcomes of the checks the verifier lists for a variant and an answer.
ChecksOf(ex, ans) ==
    CASE ex.kind = COMBINATORICS -> CombinatoricsChecks(ex, ans)
      [] ex.kind = ALGEBRA -> AlgebraChecks(ex, ans)
      [] ex.kind = NUMBER_THEORY -> NumberTheoryChecks(ex, ans)
      [] ex.kind = GEOMETRY -> GeometryChecks(ex, ans)
      [] ex.kind = PROBABILITY -> ProbabilityChecks(ex, ans)
      [] ex.kind = CALCULUS -> CalculusChecks(ex, ans)

C28_WitnessError ==
    /\ pc[1] = "returned"
    /\ extracted[1].kind = COMBINATORICS
    /\ ChecksOf(extracted[1], answer[1]) = <<"pass", "pass", "raise">>
    /\ verify_result[1].guard_code = "VERIFY_ERROR"

\* C29: when the gate routes PATTERNABLE, the pipeline's own lookup selects
\* the text the gate examined, a non-blank string found under the first of
\* raw, problem, text that holds one; the extractor is handed that text; and
\* no Response carries the guard code NO_RAW_TEXT.
C29_SameRawText ==
    \A i \in Invocations :
        /\ response[i].guard_code # "NO_RAW_TEXT"
        /\ decision[i].route = PATTERNABLE =>
               /\ GetRaw(input[i]) # NoRaw
               /\ IsPatternable(GetRaw(input[i]).s)
               /\ PipelineRaw(input[i]) = GetRaw(input[i])
               /\ PipelineRaw(input[i]) = SelectedText(input[i])
               /\ Invoked(i, "Extractor") =>
                      extracted[i] = Extract(GetRaw(input[i]).s)

\* An input holding two different texts, the patternable one under the key
\* of higher priority, has passed the extractor.
C29_Witness ==
    /\ decision[1].route = PATTERNABLE
    /\ Invoked(1, "Extractor")
    /\ \E j, k \in 1..Len(RawKeys) :
         /\ j < k
         /\ IsText(input[1][RawKeys[j]])
         /\ IsText(input[1][RawKeys[k]])
         /\ input[1][RawKeys[j]] # input[1][RawKeys[k]]
         /\ Extract(input[1][RawKeys[j]].s) # Extract(input[1][RawKeys[k]].s)
         /\ extracted[1] = Extract(input[1][RawKeys[j]].s)

\* C30: a text that some extractor rule matches passes the gate's keyword
\* test, on the disjunct of that rule's own domain; as the selected text of
\* an input that is not pre-structured it is routed PATTERNABLE and not
\* answered OBS_UNTRUSTED.
C30_GateAdmitsExtractable ==
    \A i \in Invocations :
        LET sel == SelectedText(input[i])
        IN  (sel # NoRaw /\ Matching(sel.s) # {}) =>
                /\ IsPatternable(sel.s)
                /\ COMBINATORICS \in Matching(sel.s) => KwCombinatorics(Lower(sel.s))
                /\ ALGEBRA \in Matching(sel.s) => KwAlgebra(Lower(sel.s))
                /\ NUMBER_THEORY \in Matching(sel.s) => KwNumberTheory(Lower(sel.s))
                /\ GEOMETRY \in Matching(sel.s) => KwGeometry(Lower(sel.s))
                /\ PROBABILITY \in Matching(sel.s) => KwProbability(Lower(sel.s))
                /\ CALCULUS \in Matching(sel.s) => KwCalculus(Lower(sel.s))
                /\ (pc[i] = "done" /\ ~IsAlreadyStructured(input[i])) =>
                       /\ decision[i].route = PATTERNABLE
                       /\ response[i].guard_code # "OBS_UNTRUSTED"

\* A dice text without the word probability, which the probability rule
\* matches, has been routed PATTERNABLE and answered.
C30_Witness ==
    /\ HasResponse(1)
    /\ SelectedText(input[1]) # NoRaw
    /\ Matching(SelectedText(input[1]).s) = {PROBABILITY}
    /\ ~In("probability", Lower(SelectedText(input[1]).s))
    /\ decision[1].route = PATTERNABLE
    /\ response[1].ok

\* The converse fails: a text that passed the gate's keyword test is matched
\* by no rule and has been halted with EXTRACT_FAIL.
C30_WitnessConverse ==
    /\ HasResponse(1)
    /\ decision[1].route = PATTERNABLE
    /\ Matching(SelectedText(input[1]).s) = {}
    /\ response[1].guard_code = "EXTRACT_FAIL"

====
